---- MODULE Spec2Model ----
(***************************************************************************)
(* llm-dock dashboard: the compose-file manager (compose_manager.py), the  *)
(* service routes that drive it (routes/services.py) and the benchmark     *)
(* run store and executor (benchmarking/).                                 *)
(*                                                                         *)
(* Files are sequences of tokens.  A token is a record [k, name, tt, port];*)
(* k is "nl" for a newline, "begin"/"end" for the two marker comments,     *)
(* "services" for the services: key, "text" for other static YAML and      *)
(* "svc" for one service block.                                            *)
(***************************************************************************)
EXTENDS Integers, Sequences, FiniteSets, TLC

\* ------------------------------------------------------------------ bounds
\* Callers (threads or processes, each with its own ComposeManager instance).
Callers == {"c1", "c2"}
\* Total number of calls / requests the callers may start in one behaviour.
MaxCalls == 2

TemplateTypes == {"llamacpp", "vllm"}
Aliases == {"a"}
Ports == {3301, 3302}

\* ------------------------------------------------------------------ tokens
Tok(kind) == [k |-> kind, name |-> "", tt |-> "", port |-> 0]
NL == Tok("nl")
BEGIN_DYNAMIC_MARKER == Tok("begin")
END_DYNAMIC_MARKER == Tok("end")
SvcTok(n, cfg) == [k |-> "svc", name |-> n, tt |-> cfg.template_type, port |-> cfg.port]

File(data) == [ex |-> TRUE, data |-> data]
NoFile == [ex |-> FALSE, data |-> <<>>]

\* The hand-seeded artifact: static text, the two marker lines, static text.
SeedCompose ==
  <<Tok("services"), NL, BEGIN_DYNAMIC_MARKER, NL, END_DYNAMIC_MARKER, NL, Tok("text"), NL>>

\* str.find / str.rfind on token sequences, 1-based, 0 when not found.
Find(s, t, from) ==
  LET hits == {i \in from..Len(s) : s[i] = t}
  IN IF hits = {} THEN 0 ELSE CHOOSE i \in hits : \A j \in hits : i <= j

RFind(s, t, before) ==
  LET hits == {i \in 1..(before - 1) : s[i] = t}
  IN IF hits = {} THEN 0 ELSE CHOOSE i \in hits : \A j \in hits : i >= j

RECURSIVE Flatten(_)
Flatten(ss) == IF ss = <<>> THEN <<>> ELSE Head(ss) \o Flatten(Tail(ss))

\* ------------------------------------------------------- services database
\* services.json: an ordered name -> config document (dict insertion order).
DbNames(doc) == {doc[i].name : i \in 1..Len(doc)}
DbIndex(doc, n) == CHOOSE i \in 1..Len(doc) : doc[i].name = n
DbGet(doc, n) == doc[DbIndex(doc, n)].cfg
DbPut(doc, n, c) ==
  IF n \in DbNames(doc)
    THEN [doc EXCEPT ![DbIndex(doc, n)] = [name |-> n, cfg |-> c]]
    ELSE Append(doc, [name |-> n, cfg |-> c])
DbDel(doc, n) == SelectSeq(doc, LAMBDA e : e.name # n)
DbPorts(doc) == {doc[i].cfg.port : i \in 1..Len(doc)}

\* flag_metadata.generate_service_name: "{template_type}-{alias}".
generate_service_name(tt, alias) == tt \o "-" \o alias

ServiceNames == {generate_service_name(tt, a) : tt \in TemplateTypes, a \in Aliases}

\* ---------------------------------------------------------------- variables
VARIABLES
  compose,   \* docker-compose.yml
  backup,    \* docker-compose.yml.backup
  temp,      \* docker-compose.yml.tmp
  flocks,    \* flock table: set of <<lock path, holder>>
  db,        \* services.json: [doc, junk, size]
  pc,        \* pc[c]: where caller c stands
  loc,       \* loc[c]: caller c's local variables
  calls,     \* number of calls started so far
  last,      \* history: the contents put in place at the compose path so far
  runs,      \* benchmark_runs table: runs[id], status "" when there is no row
  uuid,      \* number of run ids handed out so far
  thread,    \* thread[id]: the _execute thread of run id: [pc, out, msg, raw]
  proc,      \* proc[id]: the docker process of run id
  active,    \* BenchmarkExecutor._active_processes: ids with a process handle
  clock,     \* wall clock, in seconds
  restarts,  \* number of server restarts so far
  recovered, \* what the last recover_stale_runs returned
  cin,       \* _build_docker_cmd: its arguments
  cmd,       \* _build_docker_cmd: the list built so far
  ci,        \* _build_docker_cmd: number of params.items() consumed
  cpc,       \* _build_docker_cmd: position
  pin,       \* _execute after communicate(): return code, stdout, stderr
  ps,        \* _execute after communicate(): position and locals
  ain,       \* apply_benchmark: the run and the service config as the request finds them
  asvc,      \* apply_benchmark: the service's config in services.json and in the artifact
  aps        \* apply_benchmark: position and locals

files == <<compose, backup, temp, flocks, db, last>>
benchVars == <<runs, uuid, thread, proc, active, clock, restarts, recovered>>
cmdVars == <<cin, cmd, ci, cpc>>
parseVars == <<pin, ps>>
applyVars == <<ain, asvc, aps>>
vars == <<compose, backup, temp, flocks, db, pc, loc, calls, last,
          runs, uuid, thread, proc, active, clock, restarts, recovered,
          cin, cmd, ci, cpc, pin, ps, ain, asvc, aps>>

NoCfg == [template_type |-> "", port |-> 0]
IdleLoc ==
  [op |-> "", name |-> "", cfg |-> NoCfg, oname |-> "", ocfg |-> NoCfg,
   dbop |-> "", next |-> "", doc |-> <<>>, old |-> <<>>,
   prefix |-> <<>>, suffix |-> <<>>, cand |-> <<>>, pre |-> <<>>,
   vres |-> "", err |-> "", run |-> 0, params |-> <<>>, resp |-> ""]

\* ----------------------------------------------------- YAML load and dump
\* yaml.safe_load drops comments (the markers) and layout; what is left is the
\* services: key, the service blocks in order, and the other top-level keys.
IsData(t) == t.k \in {"services", "svc", "text"}
read_compose(content) ==
  [has_services |-> \E i \in 1..Len(content) : content[i].k = "services",
   services |-> SelectSeq(content, LAMBDA t : t.k = "svc"),
   rest |-> SelectSeq(content, LAMBDA t : t.k = "text")]

\* yaml.dump(config, sort_keys=False): keys in insertion order, no comments.
write_compose(config) ==
  (IF config.has_services THEN <<Tok("services"), NL>> ELSE <<>>)
  \o Flatten([i \in 1..Len(config.services) |-> <<config.services[i], NL>>])
  \o Flatten([i \in 1..Len(config.rest) |-> <<config.rest[i], NL>>])

get_existing_services(content) ==
  LET s == read_compose(content).services IN {s[i].name : i \in 1..Len(s)}

get_used_ports(content) ==
  LET s == read_compose(content).services IN {s[i].port : i \in 1..Len(s)} \ {0}

\* First free port of start_port..end_port, 3399 reserved; 0 when none (ValueError).
DashboardPort == 3399
get_next_available_port(content, start_port, end_port) ==
  LET free == {p \in start_port..end_port :
                 p \notin (get_used_ports(content) \cup {DashboardPort})}
  IN IF free = {} THEN 0 ELSE CHOOSE p \in free : \A q \in free : p <= q

\* --------------------------------------------------- rebuild: pure pieces
\* _split_compose_file with the prefix cut before the newline of the BEGIN line.
split_compose_file_bare_marker(content) ==
  LET begin_idx == Find(content, BEGIN_DYNAMIC_MARKER, 1)
      end_idx == Find(content, END_DYNAMIC_MARKER, 1)
      prefix_end == Find(content, NL, begin_idx)
      suffix_start == RFind(content, NL, end_idx)
  IN IF begin_idx = 0 \/ end_idx = 0
       THEN [ok |-> FALSE, prefix |-> <<>>, suffix |-> <<>>]
       ELSE [ok |-> TRUE,
             prefix |-> SubSeq(content, 1, prefix_end - 1),
             suffix |-> SubSeq(content, IF suffix_start = 0 THEN 1 ELSE suffix_start,
                               Len(content))]
\* _split_compose_file without the two raises: a file with a marker missing is
\* all prefix.
split_compose_file_unchecked(content) ==
  LET begin_idx == Find(content, BEGIN_DYNAMIC_MARKER, 1)
      end_idx == Find(content, END_DYNAMIC_MARKER, 1)
      prefix_end == Find(content, NL, begin_idx)
      suffix_start == RFind(content, NL, end_idx)
  IN IF begin_idx = 0 \/ end_idx = 0
       THEN [ok |-> TRUE, prefix |-> content, suffix |-> <<>>]
       ELSE [ok |-> TRUE,
             prefix |-> SubSeq(content, 1, prefix_end),
             suffix |-> SubSeq(content, IF suffix_start = 0 THEN 1 ELSE suffix_start,
                               Len(content))]
split_compose_file(content) ==
  LET begin_idx == Find(content, BEGIN_DYNAMIC_MARKER, 1)
      end_idx == Find(content, END_DYNAMIC_MARKER, 1)
      prefix_end == Find(content, NL, begin_idx)
      suffix_start == RFind(content, NL, end_idx)
  IN IF begin_idx = 0 \/ end_idx = 0
       THEN [ok |-> FALSE, prefix |-> <<>>, suffix |-> <<>>]
       ELSE [ok |-> TRUE,
             prefix |-> SubSeq(content, 1, prefix_end),
             suffix |-> SubSeq(content, IF suffix_start = 0 THEN 1 ELSE suffix_start,
                               Len(content))]

render_service(service_name, config) == <<SvcTok(service_name, config)>>

\* _generate_dynamic_section without sections.append("\n").
generate_dynamic_section_unseparated(services_db) ==
  Flatten([i \in 1..Len(services_db) |->
             render_service(services_db[i].name, services_db[i].cfg)])

generate_dynamic_section(services_db) ==
  Flatten([i \in 1..Len(services_db) |->
             render_service(services_db[i].name, services_db[i].cfg) \o <<NL>>])

\* Length of json.dump(doc): what differs between documents is the number of
\* entries and the lengths of their names and template types.
RECURSIVE JsonSize(_)
JsonSize(doc) ==
  IF doc = <<>> THEN 2
  ELSE 40 + Len(Head(doc).name) + Len(Head(doc).cfg.template_type) + JsonSize(Tail(doc))

\* json.load of services.json.  A file just truncated by open('w') (doc = <<>>)
\* and a file holding a document followed by the tail of a longer one (junk)
\* raise JSONDecodeError and are read as {}.
load_services_db == IF db.junk THEN <<>> ELSE db.doc

\* docker compose config: exit code 0, non-zero exit, timeout, binary missing,
\* any other error.
ValidationOutcomes == {"rc0", "nonzero", "timeout", "missing", "oserror"}
validate_compose_file_strict(outcome) == outcome = "rc0"
validate_compose_file_lenient(outcome) == outcome \in {"rc0", "missing", "timeout"}
validate_compose_file(outcome) == outcome \in {"rc0", "missing"}

\* A file opened with 'w' and written from offset 0 by a writer whose open()
\* came before another writer's data: bytes past the new data stay.
WriteFrom0(old, new) ==
  IF Len(old) > Len(new) THEN new \o SubSeq(old, Len(new) + 1, Len(old)) ELSE new

\* ------------------------------------------------------------ call helpers
Set(c, changes) == loc' = [loc EXCEPT ![c] = changes]
Goto(c, label) == pc' = [pc EXCEPT ![c] = label]

\* A call starts: fresh locals, one more call counted.
Begin(c, label, locals) ==
  /\ pc[c] = "idle"
  /\ calls < MaxCalls
  /\ calls' = calls + 1
  /\ pc' = [pc EXCEPT ![c] = label]
  /\ loc' = [loc EXCEPT ![c] = locals]

\* A call returns or raises (result says which): its locals go; what stays of
\* a request to the dashboard is which request it was and how it ended
\* (history, read by no action).
End(c, result) ==
  /\ pc' = [pc EXCEPT ![c] = "idle"]
  /\ loc' = [loc EXCEPT ![c] =
               IF loc[c].op \in {"create", "update", "delete", "set_public_port"}
                 THEN [IdleLoc EXCEPT !.op = loc[c].op, !.resp = result]
                 ELSE IdleLoc]

\* A request handler returns its response: the status of the run it returns,
\* or the error it answers with.
Respond(c, result) ==
  /\ pc' = [pc EXCEPT ![c] = "idle"]
  /\ loc' = [loc EXCEPT ![c] = [IdleLoc EXCEPT !.resp = result]]

\* A registry write returns None: what stays of the call is what it was asked
\* to write (history, read by no action).
Returned(c) ==
  /\ pc' = [pc EXCEPT ![c] = "idle"]
  /\ loc' = [loc EXCEPT ![c] = [IdleLoc EXCEPT !.resp = "ok", !.dbop = loc[c].dbop,
                                               !.name = loc[c].name, !.cfg = loc[c].cfg]]

\* Every instance derives the lock path from the compose path alone.
lock_path_per_instance(c) == "docker-compose.lock." \o c
lock_path(c) == "docker-compose.lock"

LockHeld_never(path) == FALSE
LockHeld(path) == \E h \in Callers : <<path, h>> \in flocks

\* fcntl.flock(LOCK_EX): blocks while any holder has the path locked.
flock_ex(c, here, next) ==
  /\ pc[c] = here
  /\ ~LockHeld(lock_path(c))
  /\ flocks' = flocks \cup {<<lock_path(c), c>>}
  /\ Goto(c, next)
  /\ Set(c, [loc[c] EXCEPT !.pre = compose.data])
  /\ UNCHANGED <<compose, backup, temp, db, calls, last, benchVars, cmdVars, parseVars, applyVars>>

\* A bare lock/unlock pair: the unlock is reached on the normal return only.
flock_un_on_success(c, here) ==
  /\ pc[c] = here
  /\ flocks' = IF loc[c].err = "" THEN flocks \ {<<lock_path(c), c>>} ELSE flocks
  /\ End(c, IF loc[c].err = "" THEN "ok" ELSE loc[c].err)
  /\ UNCHANGED <<compose, backup, temp, db, calls, last, benchVars, cmdVars, parseVars, applyVars>>

\* fcntl.flock(LOCK_UN) in the finally clause, then the call returns or re-raises.
flock_un(c, here) ==
  /\ pc[c] = here
  /\ flocks' = flocks \ {<<lock_path(c), c>>}
  /\ End(c, IF loc[c].err = "" THEN "ok" ELSE loc[c].err)
  /\ UNCHANGED <<compose, backup, temp, db, calls, last, benchVars, cmdVars, parseVars, applyVars>>

\* What a copy that stops part-way leaves at the destination: the file opened
\* for writing (so truncated) and some leading part of the source.
PartialCopies(data) == {<<>>, SubSeq(data, 1, Len(data) \div 2)}

\* shutil.copy2(compose_path, backup_path); when it raises, the backup path
\* holds what it held before (the source could not be read, the destination
\* could not be opened) or a partial copy.
copy_backup(c, here, next, fail) ==
  /\ pc[c] = here
  /\ \/ /\ backup' = File(compose.data)
        /\ Goto(c, next)
        /\ UNCHANGED loc
     \/ /\ \/ UNCHANGED backup
           \/ \E part \in PartialCopies(compose.data) : backup' = File(part)
        /\ Goto(c, fail)
        /\ Set(c, [loc[c] EXCEPT !.err = "backup"])
  /\ UNCHANGED <<compose, temp, flocks, db, calls, last, benchVars, cmdVars, parseVars, applyVars>>

\* open(temp_path, 'w')
open_temp(c, here, next) ==
  /\ pc[c] = here
  /\ temp' = File(<<>>)
  /\ Goto(c, next)
  /\ UNCHANGED <<compose, backup, flocks, db, loc, calls, last, benchVars, cmdVars, parseVars, applyVars>>

\* The writes and the close of the temp file; an IOError part-way through
\* leaves what was written so far and raises.
write_temp(c, here, next, fail) ==
  /\ pc[c] = here
  /\ \/ /\ temp' = File(WriteFrom0(temp.data, loc[c].cand))
        /\ Goto(c, next)
        /\ UNCHANGED loc
     \/ /\ temp' = File(WriteFrom0(temp.data, loc[c].prefix))
        /\ Goto(c, fail)
        /\ Set(c, [loc[c] EXCEPT !.err = "io"])
  /\ UNCHANGED <<compose, backup, flocks, db, calls, last, benchVars, cmdVars, parseVars, applyVars>>

\* _validate_compose_file(temp_path) and the raise on an invalid result.
validate_temp(c, here, next, fail) ==
  /\ pc[c] = here
  /\ \E outcome \in ValidationOutcomes :
       IF validate_compose_file(outcome)
         THEN /\ Goto(c, next)
              /\ Set(c, [loc[c] EXCEPT !.vres = outcome])
         ELSE /\ Goto(c, fail)
              /\ Set(c, [loc[c] EXCEPT !.vres = outcome, !.err = "validation"])
  /\ UNCHANGED <<compose, backup, temp, flocks, db, calls, last, benchVars, cmdVars, parseVars, applyVars>>

\* os.replace(temp_path, compose_path); FileNotFoundError when the temp is gone.
replace_compose(c, here, next, fail) ==
  /\ pc[c] = here
  /\ IF temp.ex
       THEN /\ compose' = temp
            /\ temp' = NoFile
            /\ last' = last \cup {loc[c].cand}
            /\ Goto(c, next)
            /\ UNCHANGED loc
       ELSE /\ Goto(c, fail)
            /\ Set(c, [loc[c] EXCEPT !.err = "io"])
            /\ UNCHANGED <<compose, temp, last>>
  /\ UNCHANGED <<backup, flocks, db, calls, benchVars, cmdVars, parseVars, applyVars>>

\* The except clause with a failed restore passed over: the first error is
\* raised again.
rollback_swallowed(c, here, next, raised) ==
  /\ pc[c] = here
  /\ IF backup.ex
       THEN \/ compose' = backup /\ backup' = NoFile
            \/ UNCHANGED <<compose, backup>>
       ELSE UNCHANGED <<compose, backup>>
  /\ Goto(c, next)
  /\ UNCHANGED <<temp, flocks, db, loc, calls, last, benchVars, cmdVars, parseVars, applyVars>>

\* except: if backup_path.exists(): os.replace(backup_path, compose_path); raise.
\* os.replace either puts the backup in place or fails and leaves both files;
\* its failure leaves the except clause as the error named by raised.
rollback(c, here, next, raised) ==
  /\ pc[c] = here
  /\ IF backup.ex
       THEN \/ compose' = backup /\ backup' = NoFile /\ UNCHANGED loc
            \/ /\ UNCHANGED <<compose, backup>>
               /\ Set(c, [loc[c] EXCEPT !.err = raised])
       ELSE UNCHANGED <<compose, backup, loc>>
  /\ Goto(c, next)
  /\ UNCHANGED <<temp, flocks, db, calls, last, benchVars, cmdVars, parseVars, applyVars>>

\* The call without its finally clause.
unlink_temp_skipped(c, here, next) ==
  /\ pc[c] = here
  /\ Goto(c, next)
  /\ UNCHANGED <<compose, backup, temp, flocks, db, loc, calls, last, benchVars, cmdVars, parseVars, applyVars>>

\* finally: if temp_path.exists(): temp_path.unlink()
unlink_temp(c, here, next) ==
  /\ pc[c] = here
  /\ temp' = NoFile
  /\ Goto(c, next)
  /\ UNCHANGED <<compose, backup, flocks, db, loc, calls, last, benchVars, cmdVars, parseVars, applyVars>>

\* ------------------------------------------------- rebuild_compose_file
rebuild_compose_file(c) == Begin(c, "rb_lock", [IdleLoc EXCEPT !.op = "rebuild"])
                           /\ UNCHANGED <<compose, backup, temp, flocks, db, last, benchVars, cmdVars, parseVars, applyVars>>
rb_lock(c) == flock_ex(c, "rb_lock", "rb_backup")
rb_backup(c) == copy_backup(c, "rb_backup", "rb_split", "rb_except")

rb_split(c) ==
  /\ pc[c] = "rb_split"
  /\ LET r == split_compose_file(compose.data) IN
       IF r.ok
         THEN /\ Goto(c, "rb_generate")
              /\ Set(c, [loc[c] EXCEPT !.prefix = r.prefix, !.suffix = r.suffix])
         ELSE /\ Goto(c, "rb_except")
              /\ Set(c, [loc[c] EXCEPT !.err = "marker"])
  /\ UNCHANGED <<compose, backup, temp, flocks, db, calls, last, benchVars, cmdVars, parseVars, applyVars>>

rb_generate(c) ==
  /\ pc[c] = "rb_generate"
  /\ Set(c, [loc[c] EXCEPT
               !.cand = loc[c].prefix \o generate_dynamic_section(load_services_db)
                        \o loc[c].suffix])
  /\ Goto(c, "rb_open")
  /\ UNCHANGED <<compose, backup, temp, flocks, db, calls, last, benchVars, cmdVars, parseVars, applyVars>>

rb_open(c) == open_temp(c, "rb_open", "rb_write")
rb_write(c) == write_temp(c, "rb_write", "rb_validate", "rb_except")
rb_validate(c) == validate_temp(c, "rb_validate", "rb_replace", "rb_except")
rb_replace(c) == replace_compose(c, "rb_replace", "rb_finally", "rb_except")
\* A failed restore raises the OSError of os.replace out of the except clause.
rb_except(c) == rollback(c, "rb_except", "rb_finally", "restore")
rb_finally(c) == unlink_temp(c, "rb_finally", "rb_unlock")
rb_unlock(c) == flock_un(c, "rb_unlock")

\* ------------------------------------------------------------ add_service
add_service(c, service_name, service_config) ==
  /\ Begin(c, "as_name", [IdleLoc EXCEPT !.op = "add_service", !.name = service_name,
                                          !.cfg = service_config])
  /\ UNCHANGED <<compose, backup, temp, flocks, db, last, benchVars, cmdVars, parseVars, applyVars>>

\* validate_service_name: the name is taken in the compose file -> ValueError.
as_name(c) ==
  /\ pc[c] = "as_name"
  /\ IF loc[c].name \in get_existing_services(compose.data)
       THEN End(c, "conflict")
       ELSE Goto(c, "as_port") /\ UNCHANGED loc
  /\ UNCHANGED <<compose, backup, temp, flocks, db, calls, last, benchVars, cmdVars, parseVars, applyVars>>

\* validate_port: the host port is used in the compose file -> ValueError.
as_port(c) ==
  /\ pc[c] = "as_port"
  /\ IF loc[c].cfg.port \in get_used_ports(compose.data)
       THEN End(c, "conflict")
       ELSE Goto(c, "as_lock") /\ UNCHANGED loc
  /\ UNCHANGED <<compose, backup, temp, flocks, db, calls, last, benchVars, cmdVars, parseVars, applyVars>>

as_lock(c) == flock_ex(c, "as_lock", "as_backup")
as_backup(c) == copy_backup(c, "as_backup", "as_read", "as_except")

\* config['services'][service_name] = service_config
SetService(services, t) ==
  IF \E i \in 1..Len(services) : services[i].name = t.name
    THEN [i \in 1..Len(services) |-> IF services[i].name = t.name THEN t ELSE services[i]]
    ELSE Append(services, t)

as_read(c) ==
  /\ pc[c] = "as_read"
  /\ LET config == read_compose(compose.data) IN
       IF config.has_services
         THEN /\ Goto(c, "as_open")
              /\ Set(c, [loc[c] EXCEPT !.cand = write_compose(
                     [config EXCEPT !.services =
                        SetService(@, SvcTok(loc[c].name, loc[c].cfg))])])
         ELSE /\ Goto(c, "as_except")
              /\ Set(c, [loc[c] EXCEPT !.err = "invalid"])
  /\ UNCHANGED <<compose, backup, temp, flocks, db, calls, last, benchVars, cmdVars, parseVars, applyVars>>

as_open(c) == open_temp(c, "as_open", "as_write")
as_write(c) == write_temp(c, "as_write", "as_validate", "as_except")
as_validate(c) == validate_temp(c, "as_validate", "as_replace", "as_except")
as_replace(c) == replace_compose(c, "as_replace", "as_finally", "as_except")
\* A failed restore raises IOError("Rollback failed ... Manual recovery required.").
as_except(c) == rollback(c, "as_except", "as_finally", "manual_recovery")
as_finally(c) == unlink_temp(c, "as_finally", "as_unlock")
as_unlock(c) == flock_un(c, "as_unlock")

\* --------------------------------------------------------- remove_service
remove_service(c, service_name) ==
  /\ Begin(c, "rs_check", [IdleLoc EXCEPT !.op = "remove_service", !.name = service_name])
  /\ UNCHANGED <<compose, backup, temp, flocks, db, last, benchVars, cmdVars, parseVars, applyVars>>

rs_check(c) ==
  /\ pc[c] = "rs_check"
  /\ IF loc[c].name \notin get_existing_services(compose.data)
       THEN End(c, "notfound")
       ELSE Goto(c, "rs_lock") /\ UNCHANGED loc
  /\ UNCHANGED <<compose, backup, temp, flocks, db, calls, last, benchVars, cmdVars, parseVars, applyVars>>

rs_lock(c) == flock_ex(c, "rs_lock", "rs_backup")
rs_backup(c) == copy_backup(c, "rs_backup", "rs_read", "rs_unlock")

\* config = self._read_compose(); del config['services'][service_name]
rs_read(c) ==
  /\ pc[c] = "rs_read"
  /\ LET config == read_compose(compose.data) IN
       IF loc[c].name \in get_existing_services(compose.data)
         THEN /\ Goto(c, "rs_open")
              /\ Set(c, [loc[c] EXCEPT !.cand = write_compose(
                     [config EXCEPT !.services =
                        SelectSeq(@, LAMBDA t : t.name # loc[c].name)])])
         ELSE /\ Goto(c, "rs_unlock")
              /\ Set(c, [loc[c] EXCEPT !.err = "keyerror"])
  /\ UNCHANGED <<compose, backup, temp, flocks, db, calls, last, benchVars, cmdVars, parseVars, applyVars>>

\* _write_compose(config, self.compose_path): open(compose_path, 'w') ...
rs_open(c) ==
  /\ pc[c] = "rs_open"
  /\ compose' = File(<<>>)
  /\ last' = last \cup {<<>>}
  /\ Goto(c, "rs_dump")
  /\ UNCHANGED <<backup, temp, flocks, db, loc, calls, benchVars, cmdVars, parseVars, applyVars>>

\* ... yaml.dump into it; an IOError leaves the file as far as it was written.
rs_dump(c) ==
  /\ pc[c] = "rs_dump"
  /\ \/ /\ compose' = File(WriteFrom0(compose.data, loc[c].cand))
        /\ last' = last \cup {loc[c].cand}
        /\ UNCHANGED loc
     \/ /\ UNCHANGED <<compose, last>>
        /\ Set(c, [loc[c] EXCEPT !.err = "io"])
  /\ Goto(c, "rs_unlock")
  /\ UNCHANGED <<backup, temp, flocks, db, calls, benchVars, cmdVars, parseVars, applyVars>>

rs_unlock(c) == flock_un(c, "rs_unlock")

\* ------------------------------------------- services database: the writes
\* add_service_to_db / update_service_in_db / remove_service_from_db
\* up to the call of _save_services_db.
\* The same with update and remove taking an unknown name as add does.
db_load_upsert(c) ==
  /\ pc[c] = "db_load"
  /\ LET services == load_services_db IN
       /\ Set(c, [loc[c] EXCEPT !.doc = IF loc[c].dbop = "remove"
                                           THEN DbDel(services, loc[c].name)
                                           ELSE DbPut(services, loc[c].name, loc[c].cfg)])
       /\ Goto(c, "db_open")
  /\ UNCHANGED <<compose, backup, temp, flocks, db, calls, last, benchVars, cmdVars, parseVars, applyVars>>

db_load(c) ==
  /\ pc[c] = "db_load"
  /\ LET services == load_services_db IN
       CASE loc[c].dbop = "add" ->
              /\ Set(c, [loc[c] EXCEPT !.doc = DbPut(services, loc[c].name, loc[c].cfg)])
              /\ Goto(c, "db_open")
         [] loc[c].dbop = "update" /\ loc[c].name \in DbNames(services) ->
              /\ Set(c, [loc[c] EXCEPT !.doc = DbPut(services, loc[c].name, loc[c].cfg)])
              /\ Goto(c, "db_open")
         [] loc[c].dbop = "remove" /\ loc[c].name \in DbNames(services) ->
              /\ Set(c, [loc[c] EXCEPT !.doc = DbDel(services, loc[c].name)])
              /\ Goto(c, "db_open")
         [] OTHER -> Respond(c, "ValueError")
  /\ UNCHANGED <<compose, backup, temp, flocks, db, calls, last, benchVars, cmdVars, parseVars, applyVars>>

\* _save_services_db: open(services_db_path, 'w') truncates the document ...
\* (old is history: what a reader found in the file until now.)
db_open(c) ==
  /\ pc[c] = "db_open"
  /\ db' = [doc |-> <<>>, junk |-> FALSE, size |-> 0]
  /\ Goto(c, "db_dump")
  /\ Set(c, [loc[c] EXCEPT !.old = load_services_db])
  /\ UNCHANGED <<compose, backup, temp, flocks, calls, last, benchVars, cmdVars, parseVars, applyVars>>

\* ... and json.dump writes it from offset 0 when the file is closed.
db_dump(c) ==
  /\ pc[c] = "db_dump"
  /\ db' = [doc |-> loc[c].doc,
            junk |-> db.size > JsonSize(loc[c].doc),
            size |-> IF db.size > JsonSize(loc[c].doc) THEN db.size ELSE JsonSize(loc[c].doc)]
  /\ IF loc[c].next = ""
       THEN Returned(c)
       ELSE Goto(c, loc[c].next) /\ UNCHANGED loc
  /\ UNCHANGED <<compose, backup, temp, flocks, calls, last, benchVars, cmdVars, parseVars, applyVars>>

\* The three writes called on their own; dbop is one of add, update, remove.
write_services_db(c, dbop, service_name, config) ==
  /\ Begin(c, "db_load", [IdleLoc EXCEPT !.op = "db_" \o dbop, !.dbop = dbop,
                                          !.name = service_name, !.cfg = config])
  /\ UNCHANGED <<compose, backup, temp, flocks, db, last, benchVars, cmdVars, parseVars, applyVars>>

\* ------------------------------------------------- routes/services.py
PublicPort == 3301

\* POST /api/services
create_service_v2(c, template_type, alias, port) ==
  /\ Begin(c, "cr_name",
           [IdleLoc EXCEPT !.op = "create",
                           !.name = generate_service_name(template_type, alias),
                           !.cfg = [template_type |-> template_type, port |-> port]])
  /\ UNCHANGED <<compose, backup, temp, flocks, db, last, benchVars, cmdVars, parseVars, applyVars>>

\* existing_service = compose_mgr.get_service_from_db(service_name) -> 409
cr_name(c) ==
  /\ pc[c] = "cr_name"
  /\ IF loc[c].name \in DbNames(load_services_db)
       THEN End(c, "conflict")
       ELSE Goto(c, "cr_port") /\ UNCHANGED loc
  /\ UNCHANGED <<compose, backup, temp, flocks, db, calls, last, benchVars, cmdVars, parseVars, applyVars>>

\* used_ports = compose_mgr.get_used_ports(); port in used_ports -> 409
cr_port(c) ==
  /\ pc[c] = "cr_port"
  /\ IF loc[c].cfg.port \in get_used_ports(compose.data)
       THEN End(c, "conflict")
       ELSE /\ Goto(c, "db_load")
            /\ Set(c, [loc[c] EXCEPT !.dbop = "add", !.next = "rb_lock"])
  /\ UNCHANGED <<compose, backup, temp, flocks, db, calls, last, benchVars, cmdVars, parseVars, applyVars>>

\* PUT /api/services/<service_name>; template_type "" stands for a body without it.
update_service(c, service_name, template_type, port) ==
  /\ Begin(c, "up_get",
           [IdleLoc EXCEPT !.op = "update", !.name = service_name,
                           !.cfg = [template_type |-> template_type, port |-> port]])
  /\ UNCHANGED <<compose, backup, temp, flocks, db, last, benchVars, cmdVars, parseVars, applyVars>>

\* The handler without "Prevent template_type change" and without "Use
\* existing template_type": the body's template_type is stored when it has one.
up_get_type_from_body(c) ==
  /\ pc[c] = "up_get"
  /\ LET services == load_services_db IN
       IF loc[c].name \notin DbNames(services)
         THEN End(c, "notfound")
         ELSE LET existing == DbGet(services, loc[c].name) IN
           /\ Set(c, [loc[c] EXCEPT
                        !.cfg.template_type = IF @ = "" THEN existing.template_type ELSE @,
                        !.dbop = "update", !.next = "rb_lock"])
           /\ Goto(c, IF loc[c].cfg.port # existing.port THEN "up_port" ELSE "db_load")
  /\ UNCHANGED <<compose, backup, temp, flocks, db, calls, last, benchVars, cmdVars, parseVars, applyVars>>

up_get(c) ==
  /\ pc[c] = "up_get"
  /\ LET services == load_services_db IN
       IF loc[c].name \notin DbNames(services)
         THEN End(c, "notfound")
         ELSE LET existing == DbGet(services, loc[c].name) IN
           IF loc[c].cfg.template_type # "" /\ loc[c].cfg.template_type # existing.template_type
             THEN Respond(c, "Cannot change template_type")
             ELSE /\ Set(c, [loc[c] EXCEPT !.cfg.template_type = existing.template_type,
                                           !.dbop = "update", !.next = "rb_lock"])
                  /\ Goto(c, IF loc[c].cfg.port # existing.port THEN "up_port" ELSE "db_load")
  /\ UNCHANGED <<compose, backup, temp, flocks, db, calls, last, benchVars, cmdVars, parseVars, applyVars>>

up_port(c) ==
  /\ pc[c] = "up_port"
  /\ IF loc[c].cfg.port \in get_used_ports(compose.data)
       THEN End(c, "conflict")
       ELSE Goto(c, "db_load") /\ UNCHANGED loc
  /\ UNCHANGED <<compose, backup, temp, flocks, db, calls, last, benchVars, cmdVars, parseVars, applyVars>>

\* DELETE /api/services/<service_name>
delete_service(c, service_name) ==
  /\ Begin(c, "dl_get", [IdleLoc EXCEPT !.op = "delete", !.name = service_name])
  /\ UNCHANGED <<compose, backup, temp, flocks, db, last, benchVars, cmdVars, parseVars, applyVars>>

dl_get(c) ==
  /\ pc[c] = "dl_get"
  /\ IF loc[c].name \notin DbNames(load_services_db)
       THEN End(c, "notfound")
       ELSE /\ Goto(c, "db_load")
            /\ Set(c, [loc[c] EXCEPT !.dbop = "remove", !.next = "rb_lock"])
  /\ UNCHANGED <<compose, backup, temp, flocks, db, calls, last, benchVars, cmdVars, parseVars, applyVars>>

\* POST /api/services/<service_name>/set-public-port
set_public_port(c, service_name) ==
  /\ Begin(c, "sp_get", [IdleLoc EXCEPT !.op = "set_public_port", !.name = service_name])
  /\ UNCHANGED <<compose, backup, temp, flocks, db, last, benchVars, cmdVars, parseVars, applyVars>>

sp_get(c) ==
  /\ pc[c] = "sp_get"
  /\ LET services == load_services_db IN
       IF loc[c].name \notin DbNames(services)
         THEN End(c, "notfound")
         ELSE IF DbGet(services, loc[c].name).port = PublicPort
           THEN End(c, "ok")
           ELSE /\ Set(c, [loc[c] EXCEPT !.cfg = DbGet(services, loc[c].name)])
                /\ Goto(c, "sp_list")
  /\ UNCHANGED <<compose, backup, temp, flocks, db, calls, last, benchVars, cmdVars, parseVars, applyVars>>

\* all_services = list_services_in_db(); the first entry on 3301 is the conflict.
sp_list(c) ==
  /\ pc[c] = "sp_list"
  /\ LET all_services == load_services_db
         hits == {i \in 1..Len(all_services) : all_services[i].cfg.port = PublicPort}
     IN IF hits = {}
          THEN /\ Set(c, [loc[c] EXCEPT !.cfg.port = PublicPort,
                                        !.dbop = "update", !.next = "rb_lock"])
               /\ Goto(c, "db_load")
          ELSE LET i == CHOOSE i \in hits : \A j \in hits : i <= j IN
               /\ Set(c, [loc[c] EXCEPT !.oname = all_services[i].name,
                                        !.ocfg = all_services[i].cfg])
               /\ Goto(c, "sp_next")
  /\ UNCHANGED <<compose, backup, temp, flocks, db, calls, last, benchVars, cmdVars, parseVars, applyVars>>

\* new_port = get_next_available_port(3300, 3399), then the first update:
\* the conflicting service moves to new_port.
sp_next(c) ==
  /\ pc[c] = "sp_next"
  /\ LET new_port == get_next_available_port(compose.data, 3300, 3399) IN
       IF new_port = 0
         THEN End(c, "error")
         ELSE /\ Set(c, [loc[c] EXCEPT
                      !.name = loc[c].oname,
                      !.cfg = [loc[c].ocfg EXCEPT !.port = new_port],
                      !.oname = loc[c].name,
                      !.ocfg = [loc[c].cfg EXCEPT !.port = PublicPort],
                      !.dbop = "update", !.next = "sp_self"])
              /\ Goto(c, "db_load")
  /\ UNCHANGED <<compose, backup, temp, flocks, db, calls, last, benchVars, cmdVars, parseVars, applyVars>>

\* The second update: the requested service moves to 3301; then the rebuild.
sp_self(c) ==
  /\ pc[c] = "sp_self"
  /\ Set(c, [loc[c] EXCEPT !.name = loc[c].oname, !.cfg = loc[c].ocfg,
                           !.oname = "", !.ocfg = NoCfg,
                           !.dbop = "update", !.next = "rb_lock"])
  /\ Goto(c, "db_load")
  /\ UNCHANGED <<compose, backup, temp, flocks, db, calls, last, benchVars, cmdVars, parseVars, applyVars>>

\* ------------------------------------------------------- the compose model
Configs == [template_type : TemplateTypes, port : Ports]

\* The artifact as a rebuild writes it: prefix, generated section, suffix.
Rebuilt(content, services_db) ==
  LET r == split_compose_file(content)
  IN r.prefix \o generate_dynamic_section(services_db) \o r.suffix

\* Registries the program starts from: no service, or two services; the
\* artifact is the seed rebuilt from the registry.
InitDocs ==
  {<<>>,
   <<[name |-> "llamacpp-a", cfg |-> [template_type |-> "llamacpp", port |-> 3301]],
     [name |-> "vllm-a", cfg |-> [template_type |-> "vllm", port |-> 3302]]>>}

ComposeStart(docs) ==
  /\ \E doc \in docs :
       /\ db = [doc |-> doc, junk |-> FALSE, size |-> JsonSize(doc)]
       /\ compose = File(IF doc = <<>> THEN SeedCompose ELSE Rebuilt(SeedCompose, doc))
  /\ backup = NoFile
  /\ temp = NoFile
  /\ flocks = {}
  /\ pc = [c \in Callers |-> "idle"]
  /\ loc = [c \in Callers |-> IdleLoc]
  /\ calls = 0
  /\ last = {compose.data}

ComposeInit == ComposeStart(InitDocs)

\* Calls on a ComposeManager instance.
ManagerCall(c) ==
  \/ rebuild_compose_file(c)
  \/ \E n \in ServiceNames, cfg \in Configs : add_service(c, n, cfg)
  \/ \E n \in ServiceNames : remove_service(c, n)
  \/ \E n \in ServiceNames, cfg \in Configs, dbop \in {"add", "update"} :
       write_services_db(c, dbop, n, cfg)
  \/ \E n \in ServiceNames : write_services_db(c, "remove", n, NoCfg)

ManagerStep(c) ==
  \/ rb_lock(c) \/ rb_backup(c) \/ rb_split(c) \/ rb_generate(c) \/ rb_open(c)
  \/ rb_write(c) \/ rb_validate(c) \/ rb_replace(c) \/ rb_except(c)
  \/ rb_finally(c) \/ rb_unlock(c)
  \/ as_name(c) \/ as_port(c) \/ as_lock(c) \/ as_backup(c) \/ as_read(c)
  \/ as_open(c) \/ as_write(c) \/ as_validate(c) \/ as_replace(c) \/ as_except(c)
  \/ as_finally(c) \/ as_unlock(c)
  \/ rs_check(c) \/ rs_lock(c) \/ rs_backup(c) \/ rs_read(c) \/ rs_open(c)
  \/ rs_dump(c) \/ rs_unlock(c)
  \/ db_load(c) \/ db_open(c) \/ db_dump(c)

\* Requests to the service routes.
Request(c) ==
  \/ \E tt \in TemplateTypes, a \in Aliases, p \in Ports : create_service_v2(c, tt, a, p)
  \/ \E n \in ServiceNames, tt \in {"", "vllm"}, p \in Ports :
       update_service(c, n, tt, p)
  \/ \E n \in ServiceNames : delete_service(c, n)
  \/ \E n \in ServiceNames : set_public_port(c, n)

RequestStep(c) ==
  \/ cr_name(c) \/ cr_port(c) \/ up_get(c) \/ up_port(c) \/ dl_get(c)
  \/ sp_get(c) \/ sp_list(c) \/ sp_next(c) \/ sp_self(c)
  \/ db_load(c) \/ db_open(c) \/ db_dump(c)
  \/ rb_lock(c) \/ rb_backup(c) \/ rb_split(c) \/ rb_generate(c) \/ rb_open(c)
  \/ rb_write(c) \/ rb_validate(c) \/ rb_replace(c) \/ rb_except(c)
  \/ rb_finally(c) \/ rb_unlock(c)

\* ===================================================== _build_docker_cmd
\* A string is the sequence of its characters; a string the code only copies
\* or compares as a whole (an image name, a path) is a single element.
Str(s) == <<s>>
FLAG_M == <<"-", "m">>
FLAG_O == <<"-", "o">>
LLAMACPP_IMAGE == Str("llm-dock-llamacpp")
LLAMA_BENCH_PATH == Str("/llama.cpp/build/bin/llama-bench")
Home == "/home/user"

MaxValueLen == 3
MaxParams == 2
Chars == {" ", "'", "\"", "-", "m"}
Values == UNION {[1..k -> Chars] : k \in 0..MaxValueLen}
Flags == {FLAG_M, FLAG_O, <<"-", "p">>}

\* A params dict in insertion order: its keys are distinct.
ParamMaps ==
  {p \in UNION {[1..k -> [flag : Flags, value : Values]] : k \in 0..MaxParams} :
     \A i, j \in 1..Len(p) : i # j => p[i].flag # p[j].flag}

\* What _get_service_compose_config returns: None, or the service's block.
NoServiceConfig == [found |-> FALSE, gpu |-> "", ipc |-> "", volumes |-> <<>>]
ServiceConfigs ==
  {NoServiceConfig,
   [found |-> TRUE, gpu |-> "1", ipc |-> "host",
    volumes |-> << <<"${HOME}", "/.cache/models:/local-models:ro">> >>]}
ModelPaths == {Str("/local-models/a.gguf")}

\* str.strip(): leading and trailing whitespace goes.
RECURSIVE lstrip(_)
lstrip(s) == IF s # <<>> /\ Head(s) = " " THEN lstrip(Tail(s)) ELSE s
RECURSIVE rstrip(_)
rstrip(s) == IF s # <<>> /\ s[Len(s)] = " " THEN rstrip(SubSeq(s, 1, Len(s) - 1)) ELSE s
strip(s) == rstrip(lstrip(s))
startswith(s, ch) == s # <<>> /\ s[1] = ch
endswith(s, ch) == s # <<>> /\ s[Len(s)] = ch

\* value.strip(), then one layer of matching quotes goes: stripped[1:-1].
strip_quotes(value) ==
  LET stripped == strip(value)
  IN IF \/ startswith(stripped, "\"") /\ endswith(stripped, "\"")
        \/ startswith(stripped, "'") /\ endswith(stripped, "'")
       THEN SubSeq(stripped, 2, Len(stripped) - 1)
       ELSE stripped

extract_volumes(service_config) ==
  [i \in 1..Len(service_config.volumes) |->
     [j \in 1..Len(service_config.volumes[i]) |->
        IF service_config.volumes[i][j] = "${HOME}" THEN Home
        ELSE service_config.volumes[i][j]]]
extract_gpu_args(service_config) ==
  <<Str("--gpus"), Str(IF service_config.gpu # "" THEN service_config.gpu ELSE "all")>>
extract_ipc(service_config) ==
  IF service_config.ipc # "" THEN <<Str("--ipc"), Str(service_config.ipc)>> ELSE <<>>

\* cmd up to and including the reserved flags (lines 114-136).
docker_run(service_config, model_path) ==
  <<Str("docker"), Str("run"), Str("--rm")>>
  \o (IF service_config.found
        THEN extract_gpu_args(service_config) \o extract_ipc(service_config)
             \o Flatten([i \in 1..Len(service_config.volumes) |->
                           <<Str("-v"), extract_volumes(service_config)[i]>>])
        ELSE <<Str("--gpus"), Str("all"), Str("--ipc"), Str("host"),
               Str("-v"), <<Home, "/.cache/huggingface:/hf-cache">>,
               Str("-v"), <<Home, "/.cache/models:/local-models:ro">> >>)
  \o <<LLAMACPP_IMAGE, LLAMA_BENCH_PATH, FLAG_M, model_path, FLAG_O, Str("json")>>

\* One turn of "for flag, value in params.items()".
append_param(acc, flag, value) ==
  IF flag \in {FLAG_M, FLAG_O} THEN acc
  ELSE acc \o <<flag>> \o (IF value # <<>> THEN <<strip_quotes(value)>> ELSE <<>>)

bc_config ==
  /\ cpc = "bc_config"
  /\ cmd' = docker_run(cin.service_config, cin.model_path)
  /\ cpc' = "bc_loop"
  /\ UNCHANGED <<cin, ci, files, pc, loc, calls, benchVars, parseVars, applyVars>>

bc_param ==
  /\ cpc = "bc_loop"
  /\ ci < Len(cin.params)
  /\ cmd' = append_param(cmd, cin.params[ci + 1].flag, cin.params[ci + 1].value)
  /\ ci' = ci + 1
  /\ UNCHANGED <<cin, cpc, files, pc, loc, calls, benchVars, parseVars, applyVars>>

bc_return ==
  /\ cpc = "bc_loop"
  /\ ci = Len(cin.params)
  /\ cpc' = "bc_done"
  /\ UNCHANGED <<cin, cmd, ci, files, pc, loc, calls, benchVars, parseVars, applyVars>>

CmdIdle ==
  /\ cin = [service_config |-> NoServiceConfig, model_path |-> <<>>, params |-> <<>>]
  /\ cmd = <<>>
  /\ ci = 0
  /\ cpc = "bc_done"

\* _build_docker_cmd(service_name, model_path, params) has just been called.
CmdInit ==
  /\ cin \in [service_config : ServiceConfigs, model_path : ModelPaths, params : ParamMaps]
  /\ cmd = <<>>
  /\ ci = 0
  /\ cpc = "bc_config"

CmdNext == bc_config \/ bc_param \/ bc_return

\* ======================================================= benchmark runs
MaxRuns == 2
MaxClock == 2
MaxRestarts == 1
RunIds == 1..MaxRuns

\* SQL NULL / Python None; a timestamp column that is NULL is 0.
None == "<None>"
NoRun ==
  [service_name |-> "", status |-> "", started_at |-> 0, completed_at |-> 0,
   error_message |-> None, raw_output |-> None, metrics |-> None]
NonTerminal == {"pending", "running"}
Terminal == {"completed", "failed", "cancelled"}

\* INSERT ... (id, service_name, model_path, status, params_json)
create_run(table, run_id, service_name) ==
  [table EXCEPT ![run_id] = [NoRun EXCEPT !.service_name = service_name,
                                          !.status = "pending"]]

\* UPDATE benchmark_runs SET status = ?[, started_at][, completed_at]
\* [, error_message] WHERE id = ?  -- whatever the row's status is.
update_status(table, run_id, status, started_at, completed_at, error_message) ==
  IF table[run_id].status = "" THEN table
  ELSE [table EXCEPT ![run_id] =
          [@ EXCEPT !.status = status,
                    !.started_at = IF started_at # 0 THEN started_at ELSE @,
                    !.completed_at = IF completed_at # 0 THEN completed_at ELSE @,
                    !.error_message = IF error_message # None THEN error_message ELSE @]]

\* UPDATE benchmark_runs SET <every result column> = ? WHERE id = ?
update_results(table, run_id, metrics, raw_output) ==
  IF table[run_id].status = "" THEN table
  ELSE [table EXCEPT ![run_id] = [@ EXCEPT !.metrics = metrics,
                                           !.raw_output = raw_output]]

delete_run(table, run_id) == [table EXCEPT ![run_id] = NoRun]

has_running_benchmark(table, service_name) ==
  \E id \in RunIds : /\ table[id].service_name = service_name
                     /\ table[id].status \in NonTerminal

RestartMessage == "Benchmark interrupted by server restart"

recover_stale_runs_running_only(table, now) ==
  [id \in RunIds |->
     IF table[id].status = "running"
       THEN [table[id] EXCEPT !.status = "failed", !.error_message = RestartMessage,
                              !.completed_at = now]
       ELSE table[id]]
\* UPDATE ... SET status = 'failed', error_message = ..., completed_at = now
\* WHERE status IN ('pending', 'running')
recover_stale_runs(table, now) ==
  [id \in RunIds |->
     IF table[id].status \in NonTerminal
       THEN [table[id] EXCEPT !.status = "failed", !.error_message = RestartMessage,
                              !.completed_at = now]
       ELSE table[id]]
\* cursor.rowcount of that UPDATE
recover_rowcount(table) == Cardinality({id \in RunIds : table[id].status \in NonTerminal})

\* validators.py
RESERVED_FLAGS == {FLAG_M, FLAG_O}
Letters == {"m", "o", "p"}
UnsafeChars == {";", "|", "backtick", "$", "newline"}
validate_flag_name(flag) ==
  /\ flag # <<>>
  /\ startswith(flag, "-")
  /\ flag \notin RESERVED_FLAGS
  /\ LET body == IF Len(flag) >= 2 /\ flag[2] = "-" THEN SubSeq(flag, 3, Len(flag))
                 ELSE Tail(flag)
     IN /\ body # <<>>
        /\ body[1] \in Letters
        /\ \A i \in 2..Len(body) : body[i] \in Letters \cup {"-"}
validate_flag_value(value) ==
  /\ Len(value) <= 1024
  /\ \A i \in 1..Len(value) : value[i] \notin UnsafeChars
validate_params(params) ==
  /\ Len(params) <= 50
  /\ \A i \in 1..Len(params) :
       validate_flag_name(params[i].flag) /\ validate_flag_value(params[i].value)

\* The _execute thread of a run, and the docker process it spawns.
NoThread == [pc |-> "none", out |-> "", msg |-> None, raw |-> None]
ExitOutcomes == {"json", "empty", "nojson", "error"}
TimeoutMessage == "Benchmark timed out after 600 seconds"

Step(id, label) == thread' = [thread EXCEPT ![id].pc = label]
\* Where _execute goes when _finish_failed returns: the timeout branch still
\* has its finally block to run.
AfterFinish(id) == IF thread[id].out = "timeout" THEN "ex_pop" ELSE "none"

\* self.db.update_status(run_id, "running", started_at=now)
ex_running(id) ==
  /\ thread[id].pc = "ex_running"
  /\ runs' = update_status(runs, id, "running", clock, 0, None)
  /\ Step(id, "ex_popen")
  /\ UNCHANGED <<uuid, proc, active, clock, restarts, recovered, files, pc, loc, calls, cmdVars, parseVars, applyVars>>

\* cmd = self._build_docker_cmd(...); proc = subprocess.Popen(cmd, ...)
ex_popen(id) ==
  /\ thread[id].pc = "ex_popen"
  /\ \/ /\ proc' = [proc EXCEPT ![id] = "running"]
        /\ Step(id, "ex_register")
     \/ /\ thread' = [thread EXCEPT ![id] = [pc |-> "ff_status", out |-> "oserror",
                                             msg |-> "oserror", raw |-> None]]
        /\ UNCHANGED proc
  /\ UNCHANGED <<runs, uuid, active, clock, restarts, recovered, files, pc, loc, calls, cmdVars, parseVars, applyVars>>

\* with self._lock: self._active_processes[run_id] = proc
ex_register(id) ==
  /\ thread[id].pc = "ex_register"
  /\ active' = active \cup {id}
  /\ Step(id, "ex_communicate")
  /\ UNCHANGED <<runs, uuid, proc, clock, restarts, recovered, files, pc, loc, calls, cmdVars, parseVars, applyVars>>

\* proc.communicate() without a timeout: it returns when the process has ended.
ex_communicate_no_timeout(id) ==
  /\ thread[id].pc = "ex_communicate"
  /\ proc[id] # "running"
  /\ thread' = [thread EXCEPT ![id].pc = "ex_pop", ![id].out = proc[id]]
  /\ UNCHANGED <<runs, uuid, proc, active, clock, restarts, recovered, files, pc, loc, calls, cmdVars, parseVars, applyVars>>

\* proc.communicate(timeout=BENCHMARK_TIMEOUT): the process has ended, or it
\* is still running when the timeout expires.
ex_communicate(id) ==
  /\ thread[id].pc = "ex_communicate"
  /\ IF proc[id] = "running"
       THEN thread' = [thread EXCEPT ![id].pc = "ex_kill", ![id].out = "timeout"]
       ELSE thread' = [thread EXCEPT ![id].pc = "ex_pop", ![id].out = proc[id]]
  /\ UNCHANGED <<runs, uuid, proc, active, clock, restarts, recovered, files, pc, loc, calls, cmdVars, parseVars, applyVars>>

\* except TimeoutExpired: proc.kill(); proc.communicate(); _finish_failed(...)
ex_kill(id) ==
  /\ thread[id].pc = "ex_kill"
  /\ proc' = [proc EXCEPT ![id] = IF @ = "running" THEN "killed" ELSE @]
  /\ thread' = [thread EXCEPT ![id].pc = "ff_status", ![id].msg = TimeoutMessage,
                              ![id].raw = None]
  /\ UNCHANGED <<runs, uuid, active, clock, restarts, recovered, files, pc, loc, calls, cmdVars, parseVars, applyVars>>

\* finally: with self._lock: self._active_processes.pop(run_id, None); then
\* the return code and the output decide what is stored.  The process has
\* ended and nothing holds its handle any more.
ex_pop(id) ==
  /\ thread[id].pc = "ex_pop"
  /\ active' = active \ {id}
  /\ proc' = [proc EXCEPT ![id] = "none"]
  /\ thread' =
       [thread EXCEPT ![id] =
          CASE @.out = "timeout" -> NoThread
            [] @.out = "json" -> [@ EXCEPT !.pc = "ex_store"]
            [] @.out = "empty" ->
                 [@ EXCEPT !.pc = "ff_status", !.raw = "stdout",
                           !.msg = "llama-bench returned empty or invalid results"]
            [] @.out = "nojson" ->
                 [@ EXCEPT !.pc = "ff_status", !.raw = "combined",
                           !.msg = "Failed to parse llama-bench JSON output from stdout or stderr"]
            [] @.out = "error" ->
                 [@ EXCEPT !.pc = "ff_status", !.raw = "stdout", !.msg = "stderr"]
            [] OTHER ->
                 [@ EXCEPT !.pc = "ff_status", !.raw = None,
                           !.msg = "llama-bench exited with code -9"]]
  /\ UNCHANGED <<runs, uuid, clock, restarts, recovered, files, pc, loc, calls, cmdVars, parseVars, applyVars>>

\* self.db.update_results(run_id, pp_avg_ts=..., ..., raw_output=stdout_text)
ex_store(id) ==
  /\ thread[id].pc = "ex_store"
  /\ runs' = update_results(runs, id, "metrics", "stdout")
  /\ Step(id, "ex_completed")
  /\ UNCHANGED <<uuid, proc, active, clock, restarts, recovered, files, pc, loc, calls, cmdVars, parseVars, applyVars>>

\* self.db.update_status(run_id, "completed", completed_at=now)
ex_completed(id) ==
  /\ thread[id].pc = "ex_completed"
  /\ runs' = update_status(runs, id, "completed", 0, clock, None)
  /\ thread' = [thread EXCEPT ![id] = NoThread]
  /\ UNCHANGED <<uuid, proc, active, clock, restarts, recovered, files, pc, loc, calls, cmdVars, parseVars, applyVars>>

\* _finish_failed: update_status(run_id, "failed", completed_at, error_message)
ff_status(id) ==
  /\ thread[id].pc = "ff_status"
  /\ runs' = update_status(runs, id, "failed", 0, clock, thread[id].msg)
  /\ IF thread[id].raw # None
       THEN Step(id, "ff_results")
       ELSE IF AfterFinish(id) = "none"
              THEN thread' = [thread EXCEPT ![id] = NoThread]
              ELSE Step(id, AfterFinish(id))
  /\ UNCHANGED <<uuid, proc, active, clock, restarts, recovered, files, pc, loc, calls, cmdVars, parseVars, applyVars>>

\* _finish_failed: if raw_output: update_results(run_id, raw_output=raw_output)
ff_results(id) ==
  /\ thread[id].pc = "ff_results"
  /\ runs' = update_results(runs, id, None, thread[id].raw)
  /\ IF AfterFinish(id) = "none"
       THEN thread' = [thread EXCEPT ![id] = NoThread]
       ELSE Step(id, AfterFinish(id))
  /\ UNCHANGED <<uuid, proc, active, clock, restarts, recovered, files, pc, loc, calls, cmdVars, parseVars, applyVars>>

\* The docker process ends by itself.
proc_exit(id) ==
  /\ proc[id] = "running"
  /\ \E o \in ExitOutcomes : proc' = [proc EXCEPT ![id] = o]
  /\ UNCHANGED <<runs, uuid, thread, active, clock, restarts, recovered, files, pc, loc, calls, cmdVars, parseVars, applyVars>>

Tick ==
  /\ clock < MaxClock
  /\ clock' = clock + 1
  /\ UNCHANGED <<runs, uuid, thread, proc, active, restarts, recovered, files, pc, loc, calls, cmdVars, parseVars, applyVars>>

\* ------------------------------------------------ POST /api/benchmarks
start_benchmark(c, service_name, params) ==
  /\ uuid + Cardinality({d \in Callers : loc[d].op = "start"}) < MaxRuns
  /\ Begin(c, "sb_config", [IdleLoc EXCEPT !.op = "start", !.name = service_name,
                                           !.params = params])
  /\ UNCHANGED <<files, benchVars, cmdVars, parseVars, applyVars>>

\* service_config = _get_service_config(service_name): 404, or 400 when the
\* service is not a llama.cpp one.
sb_config(c) ==
  /\ pc[c] = "sb_config"
  /\ IF loc[c].name \notin DbNames(load_services_db)
       THEN Respond(c, "notfound")
       ELSE IF DbGet(load_services_db, loc[c].name).template_type # "llamacpp"
              THEN Respond(c, "invalid_service")
              ELSE Goto(c, "sb_check") /\ UNCHANGED loc
  /\ UNCHANGED <<calls, benchVars, files, cmdVars, parseVars, applyVars>>

\* start_benchmark inserting the run's row before its admission checks.
sb_check_insert_first(c) ==
  /\ pc[c] = "sb_check"
  /\ runs' = create_run(runs, uuid + 1, loc[c].name)
  /\ IF has_running_benchmark(runs, loc[c].name)
       THEN Respond(c, "conflict")
       ELSE IF ~validate_params(loc[c].params)
              THEN Respond(c, "invalid_params")
              ELSE \E model_path \in ModelPaths \cup {<<>>} :
                     IF model_path = <<>>
                       THEN Respond(c, "no_model_path")
                       ELSE Goto(c, "sb_create") /\ UNCHANGED loc
  /\ UNCHANGED <<calls, uuid, thread, proc, active, clock, restarts, recovered, files, cmdVars, parseVars, applyVars>>

\* if _executor.is_running_for_service(service_name): 409; validate_params:
\* 400; model_path = service_config.get("model_path", ""): 400 when empty.
\* The registry of the model keeps the type and the port of a definition;
\* the model path it stores is some path or none.
sb_check(c) ==
  /\ pc[c] = "sb_check"
  /\ IF has_running_benchmark(runs, loc[c].name)
       THEN Respond(c, "conflict")
       ELSE IF ~validate_params(loc[c].params)
              THEN Respond(c, "invalid_params")
              ELSE \E model_path \in ModelPaths \cup {<<>>} :
                     IF model_path = <<>>
                       THEN Respond(c, "no_model_path")
                       ELSE Goto(c, "sb_create") /\ UNCHANGED loc
  /\ UNCHANGED <<calls, benchVars, files, cmdVars, parseVars, applyVars>>

\* BenchmarkExecutor.start_benchmark: create_run, then thread.start()
sb_create(c) ==
  /\ pc[c] = "sb_create"
  /\ uuid' = uuid + 1
  /\ runs' = create_run(runs, uuid + 1, loc[c].name)
  /\ thread' = [thread EXCEPT ![uuid + 1] = [NoThread EXCEPT !.pc = "ex_running"]]
  /\ Respond(c, runs'[uuid + 1].status)
  /\ UNCHANGED <<calls, proc, active, clock, restarts, recovered, files, cmdVars, parseVars, applyVars>>

\* --------------------------------------- DELETE /api/benchmarks/<run_id>
delete_benchmark(c, run_id) ==
  /\ Begin(c, "bd_get", [IdleLoc EXCEPT !.op = "delete_run", !.run = run_id])
  /\ UNCHANGED <<files, benchVars, cmdVars, parseVars, applyVars>>

\* run = _db.get_run(run_id): 404; pending or running -> cancel; else delete
bd_get(c) ==
  /\ pc[c] = "bd_get"
  /\ IF runs[loc[c].run].status = ""
       THEN Respond(c, "notfound")
       ELSE /\ Goto(c, IF runs[loc[c].run].status \in NonTerminal THEN "cn_lock"
                       ELSE "bd_delete")
            /\ UNCHANGED loc
  /\ UNCHANGED <<calls, benchVars, files, cmdVars, parseVars, applyVars>>

\* cancel_benchmark dropping the handle without proc.kill().
cn_lock_no_kill(c) ==
  /\ pc[c] = "cn_lock"
  /\ active' = active \ {loc[c].run}
  /\ Goto(c, "cn_status")
  /\ UNCHANGED <<loc, calls, runs, uuid, thread, proc, clock, restarts, recovered, files, cmdVars, parseVars, applyVars>>

\* cancel_benchmark: with self._lock: proc.kill(); del _active_processes[run_id]
cn_lock(c) ==
  /\ pc[c] = "cn_lock"
  /\ IF loc[c].run \in active
       THEN /\ proc' = [proc EXCEPT ![loc[c].run] = IF @ = "running" THEN "killed" ELSE @]
            /\ active' = active \ {loc[c].run}
       ELSE UNCHANGED <<proc, active>>
  /\ Goto(c, "cn_status")
  /\ UNCHANGED <<loc, calls, runs, uuid, thread, clock, restarts, recovered, files, cmdVars, parseVars, applyVars>>

\* cancel_benchmark: self.db.update_status(run_id, "cancelled", completed_at=now)
cn_status(c) ==
  /\ pc[c] = "cn_status"
  /\ runs' = update_status(runs, loc[c].run, "cancelled", 0, clock, None)
  /\ Respond(c, "ok")
  /\ UNCHANGED <<calls, uuid, thread, proc, active, clock, restarts, recovered, files, cmdVars, parseVars, applyVars>>

\* _db.delete_run(run_id)
bd_delete(c) ==
  /\ pc[c] = "bd_delete"
  /\ runs' = delete_run(runs, loc[c].run)
  /\ Respond(c, "ok")
  /\ UNCHANGED <<calls, uuid, thread, proc, active, clock, restarts, recovered, files, cmdVars, parseVars, applyVars>>

\* The server goes down and comes up again: its threads, its handlers and
\* its process handles are gone, and init_benchmarking runs
\* _db.recover_stale_runs() on the table the old process left.
init_benchmarking ==
  /\ restarts < MaxRestarts
  /\ restarts' = restarts + 1
  /\ thread' = [id \in RunIds |-> NoThread]
  /\ proc' = [id \in RunIds |-> "none"]
  /\ active' = {}
  /\ pc' = [c \in Callers |-> "idle"]
  /\ loc' = [c \in Callers |-> IdleLoc]
  /\ runs' = recover_stale_runs(runs, clock)
  /\ recovered' = recover_rowcount(runs)
  /\ UNCHANGED <<calls, uuid, clock, files, cmdVars, parseVars, applyVars>>

BenchIdle ==
  /\ runs = [id \in RunIds |-> NoRun]
  /\ uuid = 0
  /\ thread = [id \in RunIds |-> NoThread]
  /\ proc = [id \in RunIds |-> "none"]
  /\ active = {}
  /\ clock = 1
  /\ restarts = 0
  /\ recovered = 0

StartParams == {<<>>, <<[flag |-> FLAG_M, value |-> <<"m">>]>>}

BenchRequest(c) ==
  \/ \E n \in ServiceNames, p \in StartParams : start_benchmark(c, n, p)
  \/ \E id \in RunIds : delete_benchmark(c, id)

BenchStep(c) ==
  \/ sb_config(c) \/ sb_check(c) \/ sb_create(c)
  \/ bd_get(c) \/ cn_lock(c) \/ cn_status(c) \/ bd_delete(c)

\* The steps of the _execute thread itself.
ThreadStep(id) ==
  \/ ex_running(id) \/ ex_popen(id) \/ ex_register(id) \/ ex_communicate(id)
  \/ ex_kill(id) \/ ex_pop(id) \/ ex_store(id) \/ ex_completed(id)
  \/ ff_status(id) \/ ff_results(id)

ExecuteStep(id) == ThreadStep(id) \/ proc_exit(id)

BenchNext ==
  \/ \E c \in Callers : BenchRequest(c) \/ BenchStep(c)
  \/ \E id \in RunIds : ExecuteStep(id)
  \/ Tick
  \/ init_benchmarking

\* ================================== what _execute does with the output
\* communicate() has returned: the return code and the two captured streams
\* decide what goes into the run's record.  A stream is a sequence of tokens:
\* a stretch of other text, white space, the JSON punctuation [ ] and , ,
\* a JSON number, or a JSON object (one entry of llama-bench's array, with the
\* keys the parser reads; a key that is absent reads as 0 or None).
MaxEntries == 2
Null == 0
PTok(kind) ==
  [k |-> kind, n_prompt |-> Null, n_gen |-> Null, avg_ts |-> Null, stddev_ts |-> Null,
   build_commit |-> None, test |-> ""]
X == PTok("x")
WS == PTok("ws")
LB == PTok("[")
RB == PTok("]")
COMMA == PTok(",")
NUM == PTok("num")
LIST == PTok("list")
LabelStdout == PTok("stdout:")
LabelStderr == PTok("stderr:")

\* Entries as llama-bench -o json writes them (n_prompt and n_gen present),
\* and as the repository's test writes them (a test name, no token counts).
\* avg_ts and stddev_ts are in tenths of a token per second.
Entries ==
  {[PTok("obj") EXCEPT !.n_prompt = 512, !.avg_ts = 12005, !.stddev_ts = 102,
                       !.build_commit = "abc123"],
   [PTok("obj") EXCEPT !.n_prompt = 512, !.avg_ts = 9000, !.stddev_ts = 55],
   [PTok("obj") EXCEPT !.n_gen = 128, !.avg_ts = 853, !.stddev_ts = 21,
                       !.build_commit = "def456"],
   [PTok("obj") EXCEPT !.n_gen = 128, !.avg_ts = 700, !.stddev_ts = 33],
   [PTok("obj") EXCEPT !.test = "pp512", !.avg_ts = 12005, !.stddev_ts = 102,
                       !.build_commit = "abc123"],
   [PTok("obj") EXCEPT !.test = "tg128", !.avg_ts = 853, !.stddev_ts = 21]}
EntryLists == UNION {[1..n -> Entries] : n \in 0..MaxEntries}

\* json.dumps of a list of entries: [e1, e2]
RECURSIVE dumps_items(_)
dumps_items(entries) ==
  IF entries = <<>> THEN <<>>
  ELSE IF Len(entries) = 1 THEN <<entries[1]>>
  ELSE <<entries[1], COMMA, WS>> \o dumps_items(Tail(entries))
dumps(entries) == <<LB>> \o dumps_items(entries) \o <<RB>>

\* Text before the array: none, a diagnostic line, a diagnostic line that
\* has brackets in it.  Text after it: none, a newline, a newline and a line.
Preambles == {<<>>, <<X, WS>>, <<X, LB, X, RB, WS>>}
Trailers == {<<>>, <<WS>>, <<WS, X>>}
Bodies ==
  {<<>>, <<LB, NUM, RB>>}
    \cup {dumps(es) : es \in EntryLists}
    \cup {<<LB, e>> : e \in Entries}
    \cup {<<LB, e, COMMA, RB>> : e \in Entries}
StdoutTexts == {pre \o body \o post : pre \in Preambles, body \in Bodies, post \in Trailers}
StderrTexts ==
  {<<>>, <<WS>>, <<X, WS>>, <<WS, X, WS, X, WS>>, dumps(<<>>)}
    \cup {<<X, WS>> \o dumps(<<e>>) \o <<WS>> : e \in Entries}

\* str.strip() on a stream
RECURSIVE text_lstrip(_)
text_lstrip(s) == IF s # <<>> /\ Head(s) = WS THEN text_lstrip(Tail(s)) ELSE s
RECURSIVE text_rstrip(_)
text_rstrip(s) ==
  IF s # <<>> /\ s[Len(s)] = WS THEN text_rstrip(SubSeq(s, 1, Len(s) - 1)) ELSE s
text_strip(s) == text_rstrip(text_lstrip(s))

\* json.loads: white space is skipped between tokens; a value is an object,
\* a number or an array of values; anything after the document but white
\* space is an error (JSONDecodeError).
RECURSIVE skip_ws(_, _)
skip_ws(s, i) == IF i <= Len(s) /\ s[i] = WS THEN skip_ws(s, i + 1) ELSE i
NoValue == [ok |-> FALSE, val |-> LIST, items |-> <<>>, next |-> 0]
RECURSIVE parse_value(_, _)
RECURSIVE parse_items(_, _, _)
parse_value(s, i) ==
  IF i > Len(s) THEN NoValue
  ELSE IF s[i].k \in {"obj", "num"}
    THEN [ok |-> TRUE, val |-> s[i], items |-> <<>>, next |-> i + 1]
  ELSE IF s[i] = LB
    THEN LET j == skip_ws(s, i + 1)
         IN IF j <= Len(s) /\ s[j] = RB
              THEN [ok |-> TRUE, val |-> LIST, items |-> <<>>, next |-> j + 1]
              ELSE parse_items(s, j, <<>>)
  ELSE NoValue
parse_items(s, i, acc) ==
  LET v == parse_value(s, i)
      j == skip_ws(s, v.next)
  IN IF ~v.ok \/ j > Len(s) THEN NoValue
     ELSE IF s[j] = RB
       THEN [ok |-> TRUE, val |-> LIST, items |-> Append(acc, v.val), next |-> j + 1]
     ELSE IF s[j] = COMMA
       THEN parse_items(s, skip_ws(s, j + 1), Append(acc, v.val))
     ELSE NoValue
json_loads(s) ==
  LET v == parse_value(s, skip_ws(s, 1))
  IN IF v.ok /\ skip_ws(s, v.next) > Len(s) THEN v ELSE NoValue

\* _extract_json_array handing the whole text to json.loads.
extract_json_array_whole_text(text) == json_loads(text)
\* _extract_json_array: text.find("["), json.loads(text[json_start:]); None
\* (here: ok = FALSE) when there is no [ or the rest does not parse.
extract_json_array(text) ==
  LET json_start == Find(text, LB, 1)
  IN IF json_start = 0 THEN NoValue
     ELSE json_loads(SubSeq(text, json_start, Len(text)))

\* The result columns of a run's row.
NoMetrics ==
  [pp_avg_ts |-> Null, pp_stddev_ts |-> Null, tg_avg_ts |-> Null, tg_stddev_ts |-> Null,
   build_commit |-> None]

\* for entry in results: one turn of the loop.
collect_entry(m, entry) ==
  LET avg_ts == entry.avg_ts
      stddev_ts == entry.stddev_ts
      n_prompt == entry.n_prompt
      n_gen == entry.n_gen
      kinds == IF n_prompt # 0 /\ n_gen = 0
                 THEN [m EXCEPT !.pp_avg_ts = avg_ts, !.pp_stddev_ts = stddev_ts]
               ELSE IF n_gen # 0 /\ n_prompt = 0
                 THEN [m EXCEPT !.tg_avg_ts = avg_ts, !.tg_stddev_ts = stddev_ts]
               ELSE m
  IN [kinds EXCEPT !.build_commit = IF @ = None THEN entry.build_commit ELSE @]
RECURSIVE collect(_, _)
collect(m, results) ==
  IF results = <<>> THEN m ELSE collect(collect_entry(m, Head(results)), Tail(results))
\* entry.get on an entry that is no object raises AttributeError.
AllObjects(results) == \A i \in 1..Len(results) : results[i].k = "obj"

ParseFailedMessage == "Failed to parse llama-bench JSON output from stdout or stderr"
EmptyResultsMessage == "llama-bench returned empty or invalid results"
ExitCodeMessage == "llama-bench exited with code 1"
AttributeErrorMessage == "object has no attribute 'get'"

\* A text that a column of the row holds is named, not copied: the stripped
\* stderr, the stdout, or the two streams combined under their labels.
StderrStripped == "stderr_text.strip()"
StdoutText == "stdout_text"
CombinedText == "combined"
raw_text(name) ==
  IF name = StdoutText THEN pin.stdout
  ELSE IF name = CombinedText
    THEN <<LabelStdout>> \o pin.stdout \o <<LabelStderr>> \o pin.stderr
  ELSE <<>>

NoInput == [returncode |-> 0, stdout |-> <<>>, stderr |-> <<>>]
NoParse == [pc |-> "none", msg |-> None, raw |-> None, results |-> <<>>, scanned |-> <<>>]
ParseRun == 1

FinishFailed(msg, raw) == ps' = [ps EXCEPT !.pc = "pf_status", !.msg = msg, !.raw = raw]

\* _execute going on to the parser whatever the return code is.
px_returncode_ignored ==
  /\ ps.pc = "px_returncode"
  /\ ps' = [ps EXCEPT !.pc = "px_parse"]
  /\ UNCHANGED <<pin, files, pc, loc, calls, benchVars, cmdVars, applyVars>>

\* if proc.returncode != 0: _finish_failed(stderr or exit code, stdout)
px_returncode ==
  /\ ps.pc = "px_returncode"
  /\ IF pin.returncode # 0
       THEN FinishFailed(IF text_strip(pin.stderr) # <<>> THEN StderrStripped
                         ELSE ExitCodeMessage, StdoutText)
       ELSE ps' = [ps EXCEPT !.pc = "px_parse"]
  /\ UNCHANGED <<pin, files, pc, loc, calls, benchVars, cmdVars, applyVars>>

\* _parse_and_store_results up to the end of the loop
px_parse ==
  /\ ps.pc = "px_parse"
  /\ LET from_stdout == extract_json_array(pin.stdout)
         results == IF from_stdout.ok THEN from_stdout
                    ELSE extract_json_array(pin.stderr)
         scanned == IF from_stdout.ok THEN <<StdoutText>> ELSE <<StdoutText, "stderr_text">>
     IN IF ~results.ok
          THEN ps' = [ps EXCEPT !.pc = "pf_status", !.msg = ParseFailedMessage,
                                !.raw = CombinedText, !.scanned = scanned]
        ELSE IF Len(results.items) = 0
          THEN ps' = [ps EXCEPT !.pc = "pf_status", !.msg = EmptyResultsMessage,
                                !.raw = StdoutText, !.scanned = scanned]
        ELSE IF ~AllObjects(results.items)
          THEN ps' = [ps EXCEPT !.pc = "pf_status", !.msg = AttributeErrorMessage,
                                !.raw = None, !.scanned = scanned]
        ELSE ps' = [ps EXCEPT !.pc = "px_store", !.results = results.items,
                              !.scanned = scanned]
  /\ UNCHANGED <<pin, files, pc, loc, calls, benchVars, cmdVars, applyVars>>

\* self.db.update_results(run_id, pp_avg_ts=pp_avg, ..., raw_output=stdout_text)
px_store ==
  /\ ps.pc = "px_store"
  /\ runs' = update_results(runs, ParseRun, collect(NoMetrics, ps.results), StdoutText)
  /\ ps' = [ps EXCEPT !.pc = "px_completed"]
  /\ UNCHANGED <<pin, uuid, thread, proc, active, clock, restarts, recovered,
                 files, pc, loc, calls, cmdVars, applyVars>>

\* self.db.update_status(run_id, "completed", completed_at=now)
px_completed ==
  /\ ps.pc = "px_completed"
  /\ runs' = update_status(runs, ParseRun, "completed", 0, clock, None)
  /\ ps' = [ps EXCEPT !.pc = "done"]
  /\ UNCHANGED <<pin, uuid, thread, proc, active, clock, restarts, recovered,
                 files, pc, loc, calls, cmdVars, applyVars>>

\* _finish_failed: update_status(run_id, "failed", completed_at, error_message)
pf_status ==
  /\ ps.pc = "pf_status"
  /\ runs' = update_status(runs, ParseRun, "failed", 0, clock, ps.msg)
  /\ ps' = [ps EXCEPT !.pc = IF raw_text(ps.raw) # <<>> THEN "pf_results" ELSE "done"]
  /\ UNCHANGED <<pin, uuid, thread, proc, active, clock, restarts, recovered,
                 files, pc, loc, calls, cmdVars, applyVars>>

\* _finish_failed: if raw_output: update_results(run_id, raw_output=raw_output)
pf_results ==
  /\ ps.pc = "pf_results"
  /\ runs' = update_results(runs, ParseRun, NoMetrics, ps.raw)
  /\ ps' = [ps EXCEPT !.pc = "done"]
  /\ UNCHANGED <<pin, uuid, thread, proc, active, clock, restarts, recovered,
                 files, pc, loc, calls, cmdVars, applyVars>>

ParseIdle ==
  /\ pin = NoInput
  /\ ps = NoParse

\* A run is running and communicate() has just returned.
ParseInit ==
  /\ pin \in [returncode : {0, 1}, stdout : StdoutTexts, stderr : StderrTexts]
  /\ ps = [NoParse EXCEPT !.pc = "px_returncode"]
  /\ runs = [id \in RunIds |->
               IF id = ParseRun
                 THEN [NoRun EXCEPT !.service_name = "llamacpp-a", !.status = "running",
                                    !.started_at = 1, !.metrics = NoMetrics]
                 ELSE NoRun]
  /\ uuid = 1
  /\ thread = [id \in RunIds |-> NoThread]
  /\ proc = [id \in RunIds |-> "none"]
  /\ active = {}
  /\ clock = 1
  /\ restarts = 0
  /\ recovered = 0

ParseNext ==
  px_returncode \/ px_parse \/ px_store \/ px_completed \/ pf_status \/ pf_results

\* ======================================================= apply_benchmark
\* PUT /api/benchmarks/<run_id>/apply.  A flag here is a whole string; a dict
\* is a function from its keys.
MaxApplyParams == 2
BENCHMARK_ONLY_FLAGS == {"-p", "-n", "-r", "-o", "-m"}
\* FLAG_TO_SERVICE_CONFIG, and one flag it has no key for.
MappedFlags == {"-ngl", "-b"}
FLAG_TO_SERVICE_CONFIG(flag) == IF flag = "-ngl" THEN "gpu_layers" ELSE "batch_size"
ApplyFlags == BENCHMARK_ONLY_FLAGS \cup MappedFlags \cup {"--mlock"}
ApplyValues == {"1", "2"}

EmptyDict == [k \in {} |-> ""]
\* d[key] = value
DictSet(d, key, value) ==
  [k \in DOMAIN d \cup {key} |-> IF k = key THEN value ELSE d[k]]

\* run.params_json.items(): distinct flags in insertion order.
RunParamMaps ==
  {m \in UNION {[1..k -> [flag : ApplyFlags, value : ApplyValues]] : k \in 0..MaxApplyParams} :
     \A i, j \in 1..Len(m) : i # j => m[i].flag # m[j].flag}

\* What get_run returns: None, or the row.
ApplyRuns ==
  {[found |-> FALSE, status |-> "", params_json |-> <<>>]}
  \cup [found : {TRUE}, status : NonTerminal \cup Terminal, params_json : RunParamMaps]

\* What get_service_from_db returns: None, a config in the unified format
\* (it has the key params), or a config in the legacy format.
NoApplyConfig ==
  [found |-> FALSE, unified |-> FALSE, params |-> EmptyDict,
   optional_flags |-> EmptyDict, custom_flags |-> EmptyDict]
ApplyConfigs ==
  {NoApplyConfig,
   [NoApplyConfig EXCEPT !.found = TRUE, !.unified = TRUE],
   [NoApplyConfig EXCEPT !.found = TRUE, !.unified = TRUE,
                         !.params = DictSet(DictSet(EmptyDict, "-n", "7"), "-ngl", "7")],
   [NoApplyConfig EXCEPT !.found = TRUE],
   [NoApplyConfig EXCEPT !.found = TRUE,
                         !.optional_flags = DictSet(EmptyDict, "gpu_layers", "7"),
                         !.custom_flags = DictSet(EmptyDict, "-p", "7")]}

NoApply ==
  [pc |-> "done", i |-> 0, service_config |-> NoApplyConfig,
   applied_params |-> EmptyDict, skipped_flags |-> <<>>, resp |-> ""]

Answer(code) == aps' = [aps EXCEPT !.pc = "done", !.resp = code]

\* run = _db.get_run(run_id): 404 when there is none, 400 unless completed.
ap_run ==
  /\ aps.pc = "ap_run"
  /\ IF ~ain.run.found THEN Answer("NOT_FOUND")
     ELSE IF ain.run.status # "completed" THEN Answer("INVALID_STATUS")
     ELSE aps' = [aps EXCEPT !.pc = "ap_config"]
  /\ UNCHANGED <<ain, asvc, files, pc, loc, calls, benchVars, cmdVars, parseVars>>

\* service_config = _get_service_config(run.service_name): 404 when None.
ap_config ==
  /\ aps.pc = "ap_config"
  /\ IF ~asvc.reg.found THEN Answer("SERVICE_NOT_FOUND")
     ELSE aps' = [aps EXCEPT !.pc = "ap_loop", !.service_config = asvc.reg]
  /\ UNCHANGED <<ain, asvc, files, pc, loc, calls, benchVars, cmdVars, parseVars>>

\* One turn of the loop with no flag skipped.
apply_param_unfiltered(l, flag, value) ==
  IF l.service_config.unified
    THEN [l EXCEPT !.service_config.params = DictSet(@, flag, value),
                   !.applied_params = DictSet(@, flag, value)]
  ELSE IF flag \in MappedFlags
    THEN [l EXCEPT !.service_config.optional_flags =
                      DictSet(@, FLAG_TO_SERVICE_CONFIG(flag), value),
                   !.applied_params = DictSet(@, flag, value)]
  ELSE [l EXCEPT !.service_config.custom_flags = DictSet(@, flag, value),
                 !.applied_params = DictSet(@, flag, value)]

\* One turn of "for flag, value in run.params_json.items()".
apply_param(l, flag, value) ==
  IF flag \in BENCHMARK_ONLY_FLAGS
    THEN [l EXCEPT !.skipped_flags = Append(@, flag)]
  ELSE IF l.service_config.unified
    THEN [l EXCEPT !.service_config.params = DictSet(@, flag, value),
                   !.applied_params = DictSet(@, flag, value)]
  ELSE IF flag \in MappedFlags
    THEN [l EXCEPT !.service_config.optional_flags =
                      DictSet(@, FLAG_TO_SERVICE_CONFIG(flag), value),
                   !.applied_params = DictSet(@, flag, value)]
  ELSE [l EXCEPT !.service_config.custom_flags = DictSet(@, flag, value),
                 !.applied_params = DictSet(@, flag, value)]

ap_param ==
  /\ aps.pc = "ap_loop"
  /\ aps.i < Len(ain.run.params_json)
  /\ LET item == ain.run.params_json[aps.i + 1]
     IN aps' = [apply_param(aps, item.flag, item.value) EXCEPT !.i = aps.i + 1]
  /\ UNCHANGED <<ain, asvc, files, pc, loc, calls, benchVars, cmdVars, parseVars>>

\* if not applied_params: 400
ap_applied ==
  /\ aps.pc = "ap_loop"
  /\ aps.i = Len(ain.run.params_json)
  /\ IF DOMAIN aps.applied_params = {} THEN Answer("NO_APPLICABLE_PARAMS")
     ELSE aps' = [aps EXCEPT !.pc = "ap_update"]
  /\ UNCHANGED <<ain, asvc, files, pc, loc, calls, benchVars, cmdVars, parseVars>>

\* mgr.update_service_in_db(run.service_name, service_config)
ap_update ==
  /\ aps.pc = "ap_update"
  /\ asvc' = [asvc EXCEPT !.reg = aps.service_config]
  /\ aps' = [aps EXCEPT !.pc = "ap_rebuild"]
  /\ UNCHANGED <<ain, files, pc, loc, calls, benchVars, cmdVars, parseVars>>

\* mgr.rebuild_compose_file(): the artifact is rendered from the registry, or
\* the rebuild fails, keeps the artifact and raises (the handler catches
\* nothing: 500).
ap_rebuild ==
  /\ aps.pc = "ap_rebuild"
  /\ \/ asvc' = [asvc EXCEPT !.art = asvc.reg] /\ Answer("ok")
     \/ UNCHANGED asvc /\ Answer("error")
  /\ UNCHANGED <<ain, files, pc, loc, calls, benchVars, cmdVars, parseVars>>

ApplyIdle ==
  /\ ain = [run |-> [found |-> FALSE, status |-> "", params_json |-> <<>>],
            reg |-> NoApplyConfig]
  /\ asvc = [reg |-> NoApplyConfig, art |-> NoApplyConfig]
  /\ aps = NoApply

\* The request has just arrived; the artifact is the rendering of the registry.
ApplyInit ==
  /\ ain \in [run : ApplyRuns, reg : ApplyConfigs]
  /\ asvc = [reg |-> ain.reg, art |-> ain.reg]
  /\ aps = [NoApply EXCEPT !.pc = "ap_run"]

ApplyNext == ap_run \/ ap_config \/ ap_param \/ ap_applied \/ ap_update \/ ap_rebuild

\* ------------------------------------------------------- specifications
ManagerNext == \E c \in Callers : ManagerCall(c) \/ ManagerStep(c)
RoutesNext == \E c \in Callers : Request(c) \/ RequestStep(c)

\* The dashboard is up: registry and artifact agree, no request is in
\* progress, the benchmark table is empty.
Init == ComposeInit /\ BenchIdle /\ CmdIdle /\ ParseIdle /\ ApplyIdle
\* _build_docker_cmd has just been called with some arguments.
InitCmd == ComposeStart({<<>>}) /\ BenchIdle /\ CmdInit /\ ParseIdle /\ ApplyIdle
\* communicate() has just returned in the _execute thread of a run.
InitParse == ComposeStart({<<>>}) /\ CmdIdle /\ ParseInit /\ ApplyIdle
\* An apply request has just arrived.
InitApply == ComposeStart({<<>>}) /\ BenchIdle /\ CmdIdle /\ ParseIdle /\ ApplyInit

SpecManager == Init /\ [][ManagerNext]_vars
SpecRoutes == Init /\ [][RoutesNext]_vars
\* Every caller that can take a step of its call eventually takes one: a
\* thread that is not blocked runs, and flock wakes a blocked caller when the
\* lock is released.
SpecManagerFair == SpecManager /\ \A c \in Callers : WF_vars(ManagerStep(c))
SpecBench == Init /\ [][BenchNext]_vars
\* A started thread runs while the server is up: each step of _execute that
\* can be taken is taken in the end.  Nothing is assumed of the docker
\* process and of the requests.
SpecBenchFair == SpecBench /\ \A id \in RunIds : WF_vars(ThreadStep(id))
SpecCmd == InitCmd /\ [][CmdNext]_vars
SpecParse == InitParse /\ [][ParseNext]_vars
SpecApply == InitApply /\ [][ApplyNext]_vars

\* ======================================================== claims C1 .. C3
Rejecting == ValidationOutcomes \ {"rc0", "missing"}
Locked == {"rb_backup", "rb_split", "rb_generate", "rb_open", "rb_write", "rb_validate",
           "rb_replace", "rb_except", "rb_finally", "rb_unlock",
           "as_backup", "as_read", "as_open", "as_write", "as_validate",
           "as_replace", "as_except", "as_finally", "as_unlock",
           "rs_backup", "rs_read", "rs_open", "rs_dump", "rs_unlock"}

\* C1: when the external checker rejects the candidate in rebuild_compose_file
\* or add_service, the call ends with an error (the validation error, or the
\* error of a restore that failed) and, at the moment it releases the lock,
\* the artifact exists and holds exactly the content it had when the call took
\* the lock.
C1_RejectedLeavesArtifact ==
  \A c \in Callers :
    (pc[c] \in {"rb_unlock", "as_unlock"} /\ loc[c].vres \in Rejecting)
      => /\ loc[c].err \in {"validation", "restore", "manual_recovery"}
         /\ compose = File(loc[c].pre)

\* A rebuild whose candidate differs from the artifact was rejected and is
\* about to return.
C1_Witness ==
  \E c \in Callers :
    /\ pc[c] = "rb_unlock"
    /\ loc[c].vres = "nonzero"
    /\ loc[c].cand # loc[c].pre

\* C2: with rebuild_compose_file and add_service calls interleaved in every
\* way, the artifact always holds one complete generation: the original
\* content or the complete candidate some call has put in place, never a
\* mixture and never a part of one.  (last collects the generations;
\* remove_service writes the artifact in place, and last collects those
\* writes too, so the formula speaks of what rebuild_compose_file and
\* add_service do.)
C2_OneGeneration == compose.ex /\ compose.data \in last

\* One caller has committed a candidate that differs from what it found while
\* the other caller is inside its own call.
C2_Witness ==
  \E c, d \in Callers :
    /\ c # d
    /\ pc[c] \in {"rb_finally", "as_finally"} /\ loc[c].err = ""
    /\ loc[c].cand # loc[c].pre
    /\ pc[d] \in {"rb_lock", "as_lock"}

\* C3: at most one caller at a time is between its Backup step and the end of
\* its commit or rollback, each caller using its own ComposeManager instance.
C3_MutualExclusion ==
  Cardinality({c \in Callers : pc[c] \in Locked}) <= 1

\* One caller is inside the locked region and the other is blocked on the lock.
C3_Witness ==
  \E c, d \in Callers :
    /\ pc[c] \in {"rb_validate", "as_validate", "rs_dump"}
    /\ pc[d] \in {"rb_lock", "as_lock", "rs_lock"}

\* ==================================================== claims C4, C8, C9
\* What lies between the BEGIN marker line and the END marker line.
DynamicRegion(content) ==
  LET r == split_compose_file(content)
  IN SubSeq(content, Len(r.prefix) + 1, Len(content) - Len(r.suffix))

RouteOps == {"create", "update", "delete"}

\* C4: when a create, update or delete request has failed in its rebuild and
\* no other request is in progress, the artifact's dynamic region is the
\* rendering of the registry as the request leaves it.
C4_FailedRebuildConsistent ==
  \A c \in Callers :
    (/\ pc[c] = "rb_unlock"
     /\ loc[c].op \in RouteOps
     /\ loc[c].err # ""
     /\ \A d \in Callers \ {c} : pc[d] = "idle")
      => DynamicRegion(compose.data) = generate_dynamic_section(load_services_db)

\* C8: an add whose name already exists, or whose host port is already in
\* use, ends at its check with a conflict and leaves the registry and the
\* artifact as they are.  A create request adds a definition to the registry:
\* its name exists when the registry holds it, its port is in use when a
\* registered definition or a service of the artifact has it.  add_service
\* adds to the artifact: name and port are looked up there.
NameExists(n) == n \in DbNames(load_services_db)
PortInUse(p) == p \in DbPorts(load_services_db) \cup get_used_ports(compose.data)

C8_ConflictRejected ==
  [][\A c \in Callers :
       (\/ /\ loc[c].op = "create"
           /\ \/ pc[c] = "cr_name" /\ pc'[c] # "cr_name" /\ NameExists(loc[c].name)
              \/ pc[c] = "cr_port" /\ pc'[c] # "cr_port" /\ PortInUse(loc[c].cfg.port)
        \/ /\ loc[c].op = "add_service"
           /\ \/ /\ pc[c] = "as_name" /\ pc'[c] # "as_name"
                 /\ loc[c].name \in get_existing_services(compose.data)
              \/ /\ pc[c] = "as_port" /\ pc'[c] # "as_port"
                 /\ loc[c].cfg.port \in get_used_ports(compose.data))
         => (pc'[c] = "idle" /\ db' = db /\ compose' = compose)]_vars

\* C9: no two definitions of the registry have the same host port.
C9_PortsUnique ==
  \A i, j \in 1..Len(db.doc) :
    i # j => db.doc[i].cfg.port # db.doc[j].cfg.port

\* ================================================== claims C5, C6, C10
Rank(status) == CASE status = "pending" -> 0 [] status = "running" -> 1 [] OTHER -> 2

\* C5: a step never moves a run back to an earlier status, and a run that is
\* completed, failed or cancelled keeps its status and all its fields until
\* its record is deleted.
C5_StatusMonotonic ==
  [][\A id \in RunIds :
       (runs[id].status # "" /\ runs'[id].status # "")
         => /\ Rank(runs'[id].status) >= Rank(runs[id].status)
            /\ runs[id].status \in Terminal => runs'[id] = runs[id]]_vars

\* C6: no service ever has two runs in status pending or running.
C6_OneActiveRun ==
  \A n \in ServiceNames :
    Cardinality({id \in RunIds : runs[id].service_name = n
                                  /\ runs[id].status \in NonTerminal}) <= 1

\* C10: a step that runs recover_stale_runs turns every pending or running run
\* into a failed one with the restart message and a completion timestamp,
\* leaves every other run as it is, and returns the number of runs it turned.
C10_RecoverStale ==
  [][restarts' # restarts =>
       /\ \A id \in RunIds :
            IF runs[id].status \in NonTerminal
              THEN /\ runs'[id].status = "failed"
                   /\ runs'[id].error_message = RestartMessage
                   /\ runs'[id].completed_at # 0
              ELSE runs'[id] = runs[id]
       /\ recovered' = Cardinality({id \in RunIds : runs[id].status \in NonTerminal})]_vars

\* recover_stale_runs has turned one stale run and left a completed one alone.
C10_Witness ==
  /\ restarts = 1
  /\ recovered = 1
  /\ \E id, other \in RunIds :
       /\ runs[id].status = "failed" /\ runs[id].error_message = RestartMessage
       /\ runs[other].status = "completed" /\ runs[other].metrics = "metrics"

\* ============================================================== claim C7
RECURSIVE Count(_, _)
Count(s, t) == IF s = <<>> THEN 0 ELSE (IF Head(s) = t THEN 1 ELSE 0) + Count(Tail(s), t)

\* C7: the list _build_docker_cmd returns holds the token -m exactly once,
\* followed by the model path it was given, and the token -o exactly once,
\* followed by json.
C7_ReservedOnce ==
  cpc = "bc_done" =>
    /\ Count(cmd, FLAG_M) = 1
    /\ cmd[Find(cmd, FLAG_M, 1) + 1] = cin.model_path
    /\ Count(cmd, FLAG_O) = 1
    /\ cmd[Find(cmd, FLAG_O, 1) + 1] = Str("json")

\* ============================================================= claim C11
\* The step that ends the timeout path of _execute (the finally block after
\* _finish_failed) while the server stays up and the run's record exists.
TimeoutPathEnds(id) ==
  /\ thread[id].pc = "ex_pop"
  /\ thread[id].out = "timeout"
  /\ thread'[id] = NoThread
  /\ restarts' = restarts
  /\ runs'[id].status # ""

\* C11: when _execute leaves its timeout path the process is not running any
\* more, its handle is out of the tracking map, and the run's record is
\* failed with the timed-out message.
C11_TimeoutFails ==
  [][\A id \in RunIds :
       TimeoutPathEnds(id)
         => /\ proc'[id] # "running"
            /\ id \notin active'
            /\ runs'[id].status = "failed"
            /\ runs'[id].error_message = TimeoutMessage]_vars

\* ============================================================= claim C12
\* C12: the content a rebuild generates is a fixed point of the rebuild: a
\* second rebuild_compose_file on it, with the registry the first one read,
\* generates the same artifact, token for token (and so the same region).
C12_RebuildTwiceSame ==
  [][\A c \in Callers :
       (pc[c] = "rb_generate" /\ pc'[c] = "rb_open")
         => /\ Rebuilt(loc'[c].cand, load_services_db) = loc'[c].cand
            /\ DynamicRegion(Rebuilt(loc'[c].cand, load_services_db))
                 = generate_dynamic_section(load_services_db)]_vars

\* The second call in a row is a rebuild that has committed, over an artifact
\* an earlier call had changed, exactly the content it found.
C12_Witness ==
  \E c \in Callers :
    /\ pc[c] = "rb_finally" /\ loc[c].op = "rebuild" /\ loc[c].err = ""
    /\ calls = 2
    /\ loc[c].pre # SeedCompose
    /\ loc[c].cand = loc[c].pre
    /\ compose.data = loc[c].cand

\* ============================================================= claim C13
\* The answers of POST /api/benchmarks that reject the request.
StartRejections ==
  {"notfound", "invalid_service", "conflict", "invalid_params", "no_model_path"}

\* C13: a start request is rejected only by its checks, and no step of a
\* start request before the call of BenchmarkExecutor.start_benchmark creates
\* or changes a run record, starts a thread or spawns a process.
C13_RejectedStartsNothing ==
  [][\A c \in Callers :
       (loc[c].op = "start" /\ pc'[c] # pc[c] /\ restarts' = restarts)
         => /\ loc'[c].resp \in StartRejections => pc[c] \in {"sb_config", "sb_check"}
            /\ pc[c] # "sb_create"
                 => /\ runs' = runs /\ uuid' = uuid
                    /\ thread' = thread /\ proc' = proc /\ active' = active]_vars

\* A second start for a service whose run is pending or running has been
\* answered with a conflict; the table holds the first run only.
C13_Witness ==
  \E c, d \in Callers :
    /\ pc[c] = "idle" /\ loc[c].resp = "conflict"
    /\ loc[d].resp = "pending"
    /\ uuid = 1
    /\ runs[1].status \in NonTerminal
    /\ \A id \in RunIds \ {1} : runs[id] = NoRun /\ thread[id] = NoThread /\ proc[id] = "none"

\* ============================================================= claim C14
\* What communicate() or Popen reports when the external process failed:
\* spawn error, crash, timeout, output without an array, empty array.
ProcessFailures == {"oserror", "error", "timeout", "nojson", "empty"}

\* C14: the step in which start_benchmark returns answers with the pending
\* record and spawns no process; the steps of _execute never touch a
\* caller; and when _execute ends after a failure of the process, the run's
\* record (if it still exists) is failed.
C14_StartReturnsPending ==
  [][restarts' = restarts =>
       /\ \A c \in Callers :
            (pc[c] = "sb_create" /\ pc'[c] = "idle")
              => loc'[c].resp = "pending" /\ proc' = proc
       /\ \A id \in RunIds :
            (thread[id].pc # "none" /\ thread'[id] # thread[id])
              => /\ pc' = pc /\ loc' = loc
                 /\ (/\ thread'[id] = NoThread
                     /\ thread[id].out \in ProcessFailures
                     /\ runs'[id].status # "")
                      => runs'[id].status = "failed"]_vars

\* ============================================================= claim C15
\* C15: the locked part of cancel_benchmark, when it finds the run's handle
\* in the tracking map, leaves the process not running and the handle out of
\* the map; and when cancel_benchmark returns, its caller is answered with
\* success and the run's record is cancelled with a completion timestamp.
C15_CancelRegistered ==
  [][\A c \in Callers :
       /\ (pc[c] = "cn_lock" /\ pc'[c] = "cn_status" /\ loc[c].run \in active)
            => /\ proc'[loc[c].run] # "running"
               /\ loc[c].run \notin active'
       /\ (pc[c] = "cn_status" /\ pc'[c] = "idle" /\ restarts' = restarts
           /\ runs[loc[c].run].status # "")
            => /\ loc'[c].resp = "ok"
               /\ runs'[loc[c].run].status = "cancelled"
               /\ runs'[loc[c].run].completed_at # 0]_vars

\* cancel_benchmark has returned for a run whose thread still waits in
\* communicate(): the process was killed by the cancel, the handle is gone,
\* and the record is cancelled.
C15_Witness ==
  \E c \in Callers, id \in RunIds :
    /\ pc[c] = "idle" /\ loc[c].resp = "ok"
    /\ thread[id].pc = "ex_communicate"
    /\ proc[id] = "killed"
    /\ id \notin active
    /\ runs[id].status = "cancelled" /\ runs[id].completed_at # 0

\* ============================================================= claim C16
\* An entry is a prompt-processing sample when it has a prompt-token count and
\* no generation-token count, a token-generation sample when the inverse.
IsPromptSample(entry) == entry.n_prompt # 0 /\ entry.n_gen = 0
IsGenSample(entry) == entry.n_gen # 0 /\ entry.n_prompt = 0
FirstIndex(indices) == CHOOSE i \in indices : \A j \in indices : i <= j

\* C16: the average and standard deviation stored for a kind are those of the
\* first entry of that kind in the parsed array.
C16_FirstSampleWins ==
  (ps.pc = "done" /\ runs[ParseRun].status = "completed")
    => LET results == ps.results
           stored == runs[ParseRun].metrics
           pp == {i \in 1..Len(results) : IsPromptSample(results[i])}
           tg == {i \in 1..Len(results) : IsGenSample(results[i])}
       IN /\ pp # {} => /\ stored.pp_avg_ts = results[FirstIndex(pp)].avg_ts
                        /\ stored.pp_stddev_ts = results[FirstIndex(pp)].stddev_ts
          /\ tg # {} => /\ stored.tg_avg_ts = results[FirstIndex(tg)].avg_ts
                        /\ stored.tg_stddev_ts = results[FirstIndex(tg)].stddev_ts

\* ============================================================= claim C17
\* The test names of a prompt-processing and of a token-generation entry.
PromptTestNames == {"pp512"}
GenTestNames == {"tg128"}

\* C17: after a clean exit whose stdout is the JSON array of a
\* prompt-processing entry and a token-generation entry, known by their test
\* names and each with an avg_ts, the run is completed, pp_avg_ts and tg_avg_ts
\* are the avg_ts of those entries and build_commit is the first entry's.
C17_NamedEntriesStored ==
  \A e1, e2 \in Entries :
    (/\ ps.pc = "done"
     /\ pin.returncode = 0
     /\ e1.test \in PromptTestNames /\ e1.avg_ts # Null
     /\ e2.test \in GenTestNames /\ e2.avg_ts # Null
     /\ pin.stdout = dumps(<<e1, e2>>))
      => /\ runs[ParseRun].status = "completed"
         /\ runs[ParseRun].metrics.pp_avg_ts = e1.avg_ts
         /\ runs[ParseRun].metrics.tg_avg_ts = e2.avg_ts
         /\ runs[ParseRun].metrics.build_commit = e1.build_commit

\* ============================================================= claim C18
\* What the record and the parser's locals show when the array es was taken
\* from stdout: the run is completed, the parsed array is es, stderr was not
\* scanned, and a kind that has exactly one sample in es has that sample's
\* figures stored.
ExtractedFromStdout(es) ==
  LET stored == runs[ParseRun].metrics
      pp == {i \in 1..Len(es) : IsPromptSample(es[i])}
      tg == {i \in 1..Len(es) : IsGenSample(es[i])}
  IN /\ runs[ParseRun].status = "completed"
     /\ ps.results = es
     /\ ps.scanned = <<StdoutText>>
     /\ \A i \in pp : pp = {i} => /\ stored.pp_avg_ts = es[i].avg_ts
                                  /\ stored.pp_stddev_ts = es[i].stddev_ts
     /\ \A i \in tg : tg = {i} => /\ stored.tg_avg_ts = es[i].avg_ts
                                  /\ stored.tg_stddev_ts = es[i].stddev_ts
\* stdout has no [ at all and stderr is a diagnostic line followed by the
\* array of one entry: the array is taken from stderr.
ExtractedFromStderr ==
  \A e \in Entries :
    (/\ Find(pin.stdout, LB, 1) = 0
     /\ pin.stderr = <<X, WS>> \o dumps(<<e>>) \o <<WS>>)
      => /\ runs[ParseRun].status = "completed"
         /\ ps.results = <<e>>
         /\ ps.scanned = <<StdoutText, "stderr_text">>
         /\ IsPromptSample(e) => runs[ParseRun].metrics.pp_avg_ts = e.avg_ts
CleanExitDone == ps.pc = "done" /\ pin.returncode = 0

\* C18 as stated: after a clean exit whose stdout is preamble text followed
\* by a JSON array of entries, the array's figures are extracted and stderr
\* is not scanned; stderr is scanned, in the same way, when stdout has no
\* array.
C18_PreambleSkipped ==
  CleanExitDone =>
    /\ \A pre \in Preambles, es \in EntryLists \ {<<>>}, post \in {<<>>, <<WS>>} :
         pin.stdout = pre \o dumps(es) \o post => ExtractedFromStdout(es)
    /\ ExtractedFromStderr

\* C18 amended: the same for preamble text that holds no [ character.
C18_BracketFreePreambleSkipped ==
  CleanExitDone =>
    /\ \A pre \in Preambles, es \in EntryLists \ {<<>>}, post \in {<<>>, <<WS>>} :
         (Find(pre, LB, 1) = 0 /\ pin.stdout = pre \o dumps(es) \o post)
           => ExtractedFromStdout(es)
    /\ ExtractedFromStderr

\* The example: a diagnostic line, then the array of one entry with a prompt
\* count of 512 and an avg_ts of 1200.5, stored as pp_avg_ts.
C18_Witness ==
  /\ CleanExitDone
  /\ \E e \in Entries :
       /\ e.n_prompt = 512 /\ e.avg_ts = 12005
       /\ pin.stdout = <<X, WS>> \o dumps(<<e>>) \o <<WS>>
       /\ runs[ParseRun].status = "completed"
       /\ runs[ParseRun].metrics.pp_avg_ts = 12005

\* ============================================================= claim C19
\* C19: after a non-zero exit the run is never completed and never has
\* metrics; when _execute is done the run is failed, its error message is
\* the stderr text (without the white space around it) or, when stderr has
\* nothing but white space, the exit-code message, and its raw output is the
\* stdout text when there is any.
C19_NonZeroExitFails ==
  pin.returncode # 0 =>
    /\ runs[ParseRun].status # "completed"
    /\ runs[ParseRun].metrics = NoMetrics
    /\ ps.pc = "done" =>
         /\ runs[ParseRun].status = "failed"
         /\ runs[ParseRun].completed_at # 0
         /\ runs[ParseRun].error_message =
              IF \E i \in 1..Len(pin.stderr) : pin.stderr[i] # WS
                THEN StderrStripped ELSE ExitCodeMessage
         /\ runs[ParseRun].raw_output = IF pin.stdout # <<>> THEN StdoutText ELSE None

\* A process that printed a well-formed array and a diagnostic line on stderr
\* but exited with a non-zero code: failed, stderr as the message, stdout kept.
C19_Witness ==
  /\ ps.pc = "done"
  /\ pin.returncode # 0
  /\ extract_json_array(pin.stdout).ok
  /\ pin.stderr = <<X, WS>>
  /\ runs[ParseRun].status = "failed"
  /\ runs[ParseRun].error_message = StderrStripped
  /\ runs[ParseRun].raw_output = StdoutText

\* ============================================================= claim C20
\* C20: after a clean exit, when neither stream yields an array or the array
\* that was parsed is empty, the run is never completed, ends failed, and its
\* raw output is the combined text of stdout and stderr.
C20_UnparsableKeepsCombined ==
  LET from_stdout == extract_json_array(pin.stdout)
      from_stderr == extract_json_array(pin.stderr)
      parsed == IF from_stdout.ok THEN from_stdout ELSE from_stderr
  IN (pin.returncode = 0 /\ (~parsed.ok \/ parsed.items = <<>>))
       => /\ runs[ParseRun].status # "completed"
          /\ ps.pc = "done" => /\ runs[ParseRun].status = "failed"
                               /\ runs[ParseRun].raw_output = CombinedText

\* ================================================================ claim C21
\* C21: update_service_in_db and remove_service_from_db called with a name
\* that the registry does not hold raise the not-found ValueError at once and
\* leave services.json as it is; and the document an update saves has exactly
\* the names of the document it read, so an update never creates an entry.
C21_UnknownNameNotFound ==
  [][\A c \in Callers :
       /\ (/\ pc[c] = "db_load" /\ pc'[c] # "db_load"
           /\ loc[c].dbop \in {"update", "remove"}
           /\ loc[c].name \notin DbNames(load_services_db))
            => (pc'[c] = "idle" /\ loc'[c].resp = "ValueError" /\ db' = db)
       /\ (pc[c] = "db_load" /\ pc'[c] = "db_open" /\ loc[c].dbop = "update")
            => DbNames(loc'[c].doc) = DbNames(load_services_db)]_vars

\* A registry write has raised the not-found error while the registry holds
\* another service, and the document is still whole.
C21_Witness ==
  \E c \in Callers :
    /\ pc[c] = "idle" /\ loc[c].resp = "ValueError"
    /\ db.doc # <<>> /\ ~db.junk
    /\ \A d \in Callers : pc[d] = "idle"

\* ================================================================ claim C22
\* The effect of a registry write that has returned: the entry it put is in
\* the document services.json holds, or the entry it removed is not.
InRegistry(l) ==
  LET services == load_services_db IN
    IF l.dbop = "remove"
      THEN l.name \notin DbNames(services)
      ELSE l.name \in DbNames(services) /\ DbGet(services, l.name) = l.cfg

\* C22: when two registry writes (add, update or remove) on different service
\* names have both returned, however their steps were interleaved, the
\* registry holds the effect of both.
C22_NoLostWrite ==
  \A c, d \in Callers :
    (/\ c # d
     /\ pc[c] = "idle" /\ loc[c].resp = "ok" /\ loc[c].dbop # ""
     /\ pc[d] = "idle" /\ loc[d].resp = "ok" /\ loc[d].dbop # ""
     /\ loc[c].name # loc[d].name)
      => InRegistry(loc[c]) /\ InRegistry(loc[d])

\* ================================================================ claim C23
RestoreFailures == {"restore", "manual_recovery"}

\* os.replace(backup_path, compose_path) moves the backup away when it succeeds:
\* a backup that is still there after the except clause was not restored.
\* C23: when the restore of the artifact from the backup fails in the except
\* clause of add_service or of rebuild_compose_file, the error the call ends
\* with is the one of the failed restore (in add_service the IOError that says
\* manual recovery is required), not the validation error or whatever else
\* brought the call into the except clause, and never no error.
C23_RestoreFailureSurfaces ==
  [][\A c \in Callers :
       (/\ pc[c] \in {"rb_except", "as_except"} /\ pc'[c] # pc[c]
        /\ backup.ex /\ backup'.ex)
         => /\ loc'[c].err = (IF pc[c] = "as_except" THEN "manual_recovery" ELSE "restore")
            /\ loc'[c].err \notin {"", "validation", loc[c].err}
            /\ pc'[c] \in {"rb_finally", "as_finally"}
       ]_vars

\* A call whose candidate was rejected and whose restore failed is about to
\* return: its error is that of the restore.
C23_Witness ==
  \E c \in Callers :
    /\ pc[c] \in {"rb_unlock", "as_unlock"}
    /\ loc[c].vres \in Rejecting
    /\ loc[c].err \in RestoreFailures

\* ================================================================ claim C24
\* The artifact a rebuild found under the lock has no BEGIN DYNAMIC marker or
\* no END DYNAMIC marker.
MarkerMissing(content) ==
  \/ Find(content, BEGIN_DYNAMIC_MARKER, 1) = 0
  \/ Find(content, END_DYNAMIC_MARKER, 1) = 0

\* C24: a rebuild_compose_file on an artifact that lacks one of the two
\* markers ends with an error; it builds no candidate, no temp file exists at
\* any moment of it, and the artifact keeps the content it had when the call
\* took the lock.
C24_MarkerMissingFails ==
  \A c \in Callers :
    (/\ loc[c].op = "rebuild"
     /\ pc[c] \in Locked \ {"rb_backup", "rb_split"}
     /\ MarkerMissing(loc[c].pre))
      => /\ pc[c] \in {"rb_except", "rb_finally", "rb_unlock"}
         /\ loc[c].err # ""
         /\ loc[c].cand = <<>>
         /\ ~temp.ex
         /\ compose = File(loc[c].pre)

\* A rebuild with services in the registry found an artifact without markers
\* (add_service had rewritten it with yaml.dump) and is about to return.
C24_Witness ==
  \E c \in Callers :
    /\ pc[c] = "rb_unlock" /\ loc[c].op = "rebuild"
    /\ MarkerMissing(loc[c].pre)
    /\ loc[c].err = "marker"
    /\ load_services_db # <<>>

\* ================================================================ claim C25
Passing == {"rc0", "missing"}

\* C25: in rebuild_compose_file and add_service the candidate is put in place
\* of the artifact exactly when validation passed.  The validation step goes on
\* to the commit when the checker exited with code 0 or its binary is missing,
\* and to the except clause on a non-zero exit, a timeout or any other error;
\* the commit step puts the candidate in place; the except clause puts the
\* backup in place or nothing; and no other step of the call changes what the
\* artifact holds.
C25_CommitIffValid ==
  [][\A c \in Callers :
       (loc[c].op \in {"rebuild", "add_service"} /\ pc'[c] # pc[c]) =>
         /\ pc[c] \in {"rb_validate", "as_validate"} =>
               /\ (loc'[c].vres \in Passing) <=> (pc'[c] \in {"rb_replace", "as_replace"})
               /\ (loc'[c].vres \in Rejecting) <=> (pc'[c] \in {"rb_except", "as_except"})
         /\ pc[c] \in {"rb_replace", "as_replace"} =>
               /\ loc[c].vres \in Passing
               /\ compose' = File(loc[c].cand)
               /\ loc'[c].err = ""
         /\ pc[c] \in {"rb_except", "as_except"} => compose' \in {compose, backup}
         /\ pc[c] \notin {"rb_replace", "as_replace", "rb_except", "as_except"} =>
               compose'.data = compose.data
    ]_vars

\* A candidate that differs from the artifact was committed although the
\* checker binary is missing.
C25_Witness ==
  \E c \in Callers :
    /\ pc[c] \in {"rb_finally", "as_finally"}
    /\ loc[c].vres = "missing" /\ loc[c].err = ""
    /\ loc[c].cand # loc[c].pre
    /\ compose = File(loc[c].cand)

\* ================================================================ claim C26
\* C26: when a rebuild_compose_file or an add_service call has left its try
\* statement and is about to release the lock and return or raise, whether it
\* committed, was rejected by the checker, failed in a write or failed in its
\* restore, docker-compose.yml.tmp does not exist; and it does not exist
\* whenever no call is in progress.
C26_TempRemoved ==
  /\ \A c \in Callers : pc[c] \in {"rb_unlock", "as_unlock"} => ~temp.ex
  /\ (\A c \in Callers : pc[c] = "idle") => ~temp.ex

\* An add_service whose candidate was written and rejected and whose restore
\* failed is about to raise, and the temp file is gone.
C26_Witness ==
  \E c \in Callers :
    /\ pc[c] = "as_unlock"
    /\ loc[c].cand # <<>> /\ loc[c].vres \in Rejecting
    /\ loc[c].err = "manual_recovery"
    /\ ~temp.ex

\* ================================================================ claim C27
\* The engine type a service name was created with: create_service_v2 builds
\* the name from the type.
CreatedType(n) ==
  CHOOSE tt \in TemplateTypes : \E a \in Aliases : generate_service_name(tt, a) = n

\* C27: whatever create, update, delete and set-public-port requests have run,
\* every service of the registry has the engine type it was created with; and
\* an update request whose body names another engine type than the stored one
\* is answered with the template_type error at its first step and changes
\* neither the registry nor the artifact.
C27_EngineTypeImmutable ==
  /\ [](\A i \in 1..Len(db.doc) :
          db.doc[i].cfg.template_type = CreatedType(db.doc[i].name))
  /\ [][\A c \in Callers :
          (/\ pc[c] = "up_get" /\ pc'[c] # "up_get"
           /\ loc[c].name \in DbNames(load_services_db)
           /\ loc[c].cfg.template_type
                 \notin {"", DbGet(load_services_db, loc[c].name).template_type})
            => /\ pc'[c] = "idle" /\ loc'[c].resp = "Cannot change template_type"
               /\ db' = db /\ compose' = compose]_vars

\* An update naming another engine type was rejected; the registry holds the
\* service with the type it was created with.
C27_Witness ==
  \E c \in Callers :
    /\ pc[c] = "idle" /\ loc[c].resp = "Cannot change template_type"
    /\ \E i \in 1..Len(db.doc) :
         db.doc[i].name = "llamacpp-a" /\ db.doc[i].cfg.template_type = "llamacpp"

\* ================================================================ claim C28
\* The benchmark-only entries of a dict of flags.
BenchmarkOnly(d) == [k \in DOMAIN d \cap BENCHMARK_ONLY_FLAGS |-> d[k]]
ApplyRejections == {"NOT_FOUND", "INVALID_STATUS", "SERVICE_NOT_FOUND", "NO_APPLICABLE_PARAMS"}
HasApplicable(params_json) ==
  \E i \in 1..Len(params_json) : params_json[i].flag \notin BENCHMARK_ONLY_FLAGS

\* C28: apply_benchmark changes the service's config in the registry or in the
\* artifact only when the run exists and is completed; whatever it changes, the
\* benchmark-only flags -p, -n, -r, -o and -m of the config (in params and in
\* custom_flags) are what they were before the request, and the keys of
\* optional_flags are config keys, never flags; and a request for an unknown
\* run, a run that is not completed, or a run whose parameters are all
\* benchmark-only is answered with an error and leaves both unchanged.
C28_ApplyCompletedOnly ==
  /\ asvc # [reg |-> ain.reg, art |-> ain.reg]
       => (ain.run.found /\ ain.run.status = "completed" /\ HasApplicable(ain.run.params_json))
  /\ \A cfg \in {asvc.reg, asvc.art, aps.service_config} :
       cfg.found =>
         /\ BenchmarkOnly(cfg.params) = BenchmarkOnly(ain.reg.params)
         /\ BenchmarkOnly(cfg.custom_flags) = BenchmarkOnly(ain.reg.custom_flags)
         /\ DOMAIN cfg.optional_flags \cap ApplyFlags = {}
  /\ (/\ aps.pc = "done"
      /\ \/ ~ain.run.found
         \/ ain.run.status # "completed"
         \/ ~HasApplicable(ain.run.params_json))
       => /\ aps.resp \in ApplyRejections
          /\ asvc = [reg |-> ain.reg, art |-> ain.reg]

\* The run of the repository's test (benchmark-only flags next to -ngl) was
\* applied to a service whose config already has -n: -ngl is written, -n keeps
\* the service's value.
C28_Witness ==
  /\ aps.pc = "done" /\ aps.resp = "ok"
  /\ \E i, j \in 1..Len(ain.run.params_json) :
       /\ ain.run.params_json[i].flag = "-n"
       /\ ain.run.params_json[j] = [flag |-> "-ngl", value |-> "2"]
  /\ asvc.reg.unified
  /\ asvc.reg.params = DictSet(DictSet(EmptyDict, "-n", "7"), "-ngl", "2")
  /\ asvc.art = asvc.reg

\* ================================================================ claim C29
DeleteSteps == {"bd_get", "cn_lock", "cn_status", "bd_delete"}

\* C29: of the steps of a DELETE request on a run: the request that is
\* answered while the run is pending or running leaves its record with status
\* cancelled; the request that is answered while the run is completed, failed
\* or cancelled leaves no record; and no step of the request changes the
\* record of a run that is completed, failed or cancelled except by deleting
\* it.
C29_DeleteCancelsOrRemoves ==
  [][\A c \in Callers :
       (pc[c] \in DeleteSteps /\ pc'[c] # pc[c] /\ restarts' = restarts) =>
         LET id == loc[c].run IN
           /\ (pc'[c] = "idle" /\ runs[id].status \in NonTerminal)
                => runs'[id].status = "cancelled"
           /\ (pc'[c] = "idle" /\ runs[id].status \in Terminal)
                => runs'[id] = NoRun
           /\ runs[id].status \in Terminal
                => runs'[id] \in {runs[id], NoRun}]_vars

\* ================================================================ claim C30
\* C30: every step of rebuild_compose_file, add_service and remove_service
\* that changes what is at the artifact's path either moves a temp file there
\* that the checker has passed (os.replace of the commit) or moves the backup
\* there (os.replace of the restore); no step opens the artifact for writing.
C30_NoInPlaceWrite ==
  [][compose' # compose =>
       \/ /\ temp.ex /\ compose' = temp /\ ~temp'.ex
          /\ \E c \in Callers :
               pc[c] \in {"rb_replace", "as_replace"} /\ loc[c].vres \in Passing
       \/ /\ backup.ex /\ compose' = backup /\ ~backup'.ex
          /\ \E c \in Callers : pc[c] \in {"rb_except", "as_except"}]_vars

\* ================================================================ claim C31
\* Every token up to and including the newline of the BEGIN DYNAMIC line, and
\* every token from the END DYNAMIC marker to the end of the file.
LiteralPrefix(content) ==
  SubSeq(content, 1, Find(content, NL, Find(content, BEGIN_DYNAMIC_MARKER, 1)))
LiteralSuffix(content) ==
  SubSeq(content, Find(content, END_DYNAMIC_MARKER, 1), Len(content))

\* C31: the commit of a rebuild_compose_file puts a file in place whose tokens
\* up to and including the BEGIN DYNAMIC line and whose tokens from the END
\* DYNAMIC line on are those of the artifact the rebuild found; the two parts
\* do not overlap, so only what lies between them can differ.
C31_PrefixSuffixKept ==
  [][\A c \in Callers :
       (pc[c] = "rb_replace" /\ pc'[c] = "rb_finally")
         => /\ LiteralPrefix(compose'.data) = LiteralPrefix(loc[c].pre)
            /\ LiteralSuffix(compose'.data) = LiteralSuffix(loc[c].pre)
            /\ Len(LiteralPrefix(loc[c].pre)) + Len(LiteralSuffix(loc[c].pre))
                 <= Len(compose'.data)
            /\ LiteralPrefix(loc[c].pre) # <<>> /\ LiteralSuffix(loc[c].pre) # <<>>]_vars

\* A rebuild has committed a file that differs from the one it found.
C31_Witness ==
  \E c \in Callers :
    /\ pc[c] = "rb_finally" /\ loc[c].op = "rebuild" /\ loc[c].err = ""
    /\ compose.data # loc[c].pre
    /\ LiteralPrefix(compose.data) = LiteralPrefix(loc[c].pre)
    /\ LiteralSuffix(compose.data) = LiteralSuffix(loc[c].pre)

\* ================================================================ claim C32
\* One block per entry of the document, in its order, a separating newline
\* after each block (the blank line between two blocks), nothing else.
BlocksOf(doc, region) ==
  /\ Len(region) = 2 * Len(doc)
  /\ \A i \in 1..Len(doc) :
       /\ region[2 * i - 1] = SvcTok(doc[i].name, doc[i].cfg)
       /\ region[2 * i] = NL

\* C32: the candidate a rebuild_compose_file generates has, between the BEGIN
\* DYNAMIC line and the line break of the END DYNAMIC line, exactly one block
\* per entry of the registry document the rebuild has read, in the document's
\* order, each followed by the separating newline, and nothing when the
\* document is empty, whatever the region held before; and the commit puts
\* exactly that candidate in place.
C32_RegionIsRendering ==
  [][\A c \in Callers :
       /\ (pc[c] = "rb_generate" /\ pc'[c] = "rb_open")
            => /\ BlocksOf(load_services_db, DynamicRegion(loc'[c].cand))
               /\ (load_services_db = <<>> => DynamicRegion(loc'[c].cand) = <<>>)
       /\ (pc[c] = "rb_replace" /\ pc'[c] = "rb_finally")
            => compose'.data = loc[c].cand]_vars

\* A rebuild has committed the blocks of two registry entries over a region
\* that held something else.
C32_Witness ==
  \E c \in Callers :
    /\ pc[c] = "rb_finally" /\ loc[c].err = ""
    /\ Len(db.doc) = 2 /\ ~db.junk
    /\ BlocksOf(db.doc, DynamicRegion(compose.data))
    /\ DynamicRegion(loc[c].pre) # <<>>
    /\ DynamicRegion(loc[c].pre) # DynamicRegion(compose.data)

\* ================================================================ claim C33
LockWait == {"rb_lock", "as_lock", "rs_lock"}

\* C33: a caller that is not inside a call holds no lock on the lock file,
\* whichever way its last call ended (return, validation failure, failed
\* restore, any other error); exactly the caller inside the locked part of a
\* call holds it; and a caller blocked in flock eventually gets the lock.
C33_LockReleased ==
  /\ [](\A c \in Callers : (<<lock_path(c), c>> \in flocks) <=> (pc[c] \in Locked))
  /\ \A c \in Callers : (pc[c] \in LockWait) ~> (pc[c] \in Locked)

\* A call is about to leave through the error of a failed restore while the
\* other caller is blocked on the lock.
C33_Witness ==
  \E c, d \in Callers :
    /\ pc[c] \in {"rb_unlock", "as_unlock"} /\ loc[c].err \in RestoreFailures
    /\ <<lock_path(c), c>> \in flocks
    /\ pc[d] \in LockWait

\* ============================================================= claim C34
\* The parameters of the call that are not reserved, in order.
CallerParams == SelectSeq(cin.params, LAMBDA p : p.flag \notin {FLAG_M, FLAG_O})

\* The tokens the loop has appended after the reserved ones.
CallerTokens == SubSeq(cmd, Len(docker_run(cin.service_config, cin.model_path)) + 1, Len(cmd))

\* C34: in the list _build_docker_cmd returns, every parameter that is not
\* reserved has put its flag and then, only when its value is not empty, the
\* value without surrounding whitespace and one layer of matching quotes; a
\* flag with an empty value stands as a bare token; and no element of the
\* list is the empty string.
C34_NoEmptyElement ==
  cpc = "bc_done" =>
    /\ CallerTokens =
         Flatten([i \in 1..Len(CallerParams) |->
                    IF CallerParams[i].value = <<>>
                      THEN <<CallerParams[i].flag>>
                      ELSE <<CallerParams[i].flag, strip_quotes(CallerParams[i].value)>>])
    /\ \A k \in 1..Len(cmd) : cmd[k] # <<>>

\* ============================================================= claim C35
\* The rebuild or add_service call of c has failed in its Backup step.
BackupFailed(c) ==
  /\ pc[c] \in {"rb_except", "rb_finally", "rb_unlock", "as_except", "as_finally", "as_unlock"}
  /\ loc[c].err = "backup"

\* C35: a rebuild or add_service call whose copy of the artifact to the
\* backup path failed is a failed call, and from the failure on the artifact
\* holds what it held when the call took the lock: neither an older backup
\* nor a partial copy is moved over it.
C35_BackupFailureKeepsArtifact ==
  \A c \in Callers : BackupFailed(c) => compose = File(loc[c].pre)

\* ============================================================= claim C36
\* C36: when cancel_benchmark returns for a run, the run's docker process is
\* not running, whatever its _execute thread had reached; and no process is
\* spawned for a run whose record reads cancelled.
C36_CancelStopsProcess ==
  [][/\ \A c \in Callers :
          (pc[c] = "cn_status" /\ pc'[c] = "idle" /\ restarts' = restarts)
            => proc'[loc[c].run] # "running"
     /\ \A id \in RunIds :
          (runs[id].status = "cancelled" /\ proc[id] # "running")
            => proc'[id] # "running"]_vars

\* ============================================================= claim C37
\* The services that are in services.json both before and after the rewrite
\* caller d is in the middle of (old: what a reader found in the file when d
\* opened it; doc: what d is writing).
KeptByWrite(d) == DbNames(loc[d].old) \cap DbNames(loc[d].doc)

\* C37: the candidate a rebuild generates while another caller is between the
\* open and the dump of its registry write has a block for every service that
\* is in the registry both before and after that write (a file caught
\* half-written is not read as an empty registry), and the region the rebuild
\* commits is the one of that candidate.
C37_RewriteNotReadEmpty ==
  [][\A c \in Callers :
       /\ (pc[c] = "rb_generate" /\ pc'[c] = "rb_open")
            => \A d \in Callers \ {c} :
                 pc[d] = "db_dump" =>
                   \A n \in KeptByWrite(d) :
                     \E i \in 1..Len(DynamicRegion(loc'[c].cand)) :
                       DynamicRegion(loc'[c].cand)[i]
                         \in {SvcTok(n, DbGet(loc[d].old, n)), SvcTok(n, DbGet(loc[d].doc, n))}
       /\ (pc[c] = "rb_replace" /\ pc'[c] = "rb_finally")
            => compose'.data = loc[c].cand]_vars

\* ============================================================= claim C38
\* C38: every run that start_benchmark has created (pending) reaches a
\* terminal status, and no run stays pending or running for ever: a thread
\* that ends, a cancel or the recovery after a restart ends that status.
C38_RunsEnd ==
  \A id \in RunIds :
    /\ (runs[id].status = "pending") ~> (runs[id].status \in Terminal)
    /\ (runs[id].status \in NonTerminal) ~> (runs[id].status \notin NonTerminal)

\* A run whose process never exited has ended failed by the timeout, with no
\* cancel and no restart.
C38_Witness ==
  \E id \in RunIds :
    /\ thread[id] = NoThread /\ restarts = 0
    /\ runs[id].status = "failed"
    /\ runs[id].error_message = TimeoutMessage

\* ============================================================= claim C39
\* Caller d is idle, and its last request, if it made one, was a create,
\* update or delete that returned successfully.
ReturnedWell(d) ==
  /\ pc[d] = "idle"
  /\ loc[d] = IdleLoc \/ (loc[d].op \in RouteOps /\ loc[d].resp = "ok")

\* The create, update or delete request of c returns successfully, and with
\* it every request has returned successfully.
LastReturns(c) ==
  /\ pc[c] = "rb_unlock" /\ pc'[c] = "idle"
  /\ loc[c].op \in RouteOps /\ loc[c].err = ""
  /\ \A d \in Callers \ {c} : ReturnedWell(d)

\* C39: whenever a create, update or delete request returns successfully and
\* no request is in progress any more, the artifact's dynamic region is the
\* rendering of what the registry holds, however the registry writes and the
\* rebuilds of the requests were interleaved.
C39_QuiescentRegionIsRegistry ==
  [][\A c \in Callers :
       LastReturns(c) =>
         BlocksOf(load_services_db, DynamicRegion(compose'.data))]_vars

\* A request is about to return successfully after the other caller's request
\* has done so, and the registry it has rendered holds two services.
C39_Witness ==
  \E c \in Callers :
    /\ pc[c] = "rb_unlock" /\ loc[c].op \in RouteOps /\ loc[c].err = ""
    /\ \A d \in Callers \ {c} : ReturnedWell(d) /\ loc[d].resp = "ok"
    /\ Len(load_services_db) = 2
    /\ compose.data = loc[c].cand /\ loc[c].cand # loc[c].pre

====
